---- MODULE Spec2Model ----
(***************************************************************************)
(* Verification model of the GTA tennis clubs scraper:                     *)
(*   - data_merger.py   : the normalizers and build_lookup_dict            *)
(*   - scraper_simple.py: TennisClubScraper.scrape_club (static)           *)
(*   - scraper_js.py    : JavaScriptScraper.scrape_club (script-rendered)  *)
(*   - scraper_hybrid.py: HybridScraper.scrape_club                        *)
(*   - app.py           : start_scraping and background_scraping_task,     *)
(*                        preview_emails and send_emails                   *)
(*   - email_agent.py   : EmailAgent                                       *)
(* Python strings that are only compared are TLA+ strings; strings the     *)
(* code takes apart (names, URLs, type cells) are spelled out character by *)
(* character by Chars, and the normalizers work on those sequences.        *)
(***************************************************************************)
EXTENDS Integers, Sequences, FiniteSets, TLC

VARIABLES
    \* ---- data_merger.py ----
    mphase,        \* position of build_lookup_dict: "ota", "toronto", "done", "raised"
    otaCount,      \* OTA rows iterated so far
    torCount,      \* Toronto rows iterated so far
    merged_data,   \* DataMerger.merged_data: key -> the dict bound to it
    sameObj,       \* the sets of keys of merged_data bound to one and the same dict object
    \* ---- scrape_club (static, script-rendered, hybrid) ----
    call,          \* observation of the last scrape_club call: inputs and result
    \* ---- app.py ----
    scraping_status, \* the global status dict
    rpc,             \* request -> position in start_scraping
    wpc,             \* worker thread -> position in background_scraping_task
    wdf,             \* worker thread -> the rows it iterates (df)
    widx,            \* worker thread -> index of the row it is at
    warg,            \* worker thread -> the arguments it was started with
    persisted,       \* the results written to scraped_data_<timestamp>.json, <<>> before
    env,             \* the roster file, how the sites answer, whether Playwright is installed,
                     \* the number of start-scraping requests sent
    obs,             \* worker thread -> whether the flag was cleared while it is processing
                     \* a club, and the results there were at that moment; the fetches
                     \* it made for each row
    \* ---- email_agent.py and the outreach routes ----
    mail             \* the outreach operation: its inputs, position, log and counters

vars == <<mphase, otaCount, torCount, merged_data, sameObj, call,
          scraping_status, rpc, wpc, wdf, widx, warg, persisted, env, obs, mail>>

mergerVars == <<mphase, otaCount, torCount, merged_data, sameObj>>
appVars == <<scraping_status, rpc, wpc, wdf, widx, warg, persisted, env, obs>>

NA == "N/A"
NaN == "<NaN>"      \* a missing cell (pandas NaN / None)

(***************************************************************************)
(* Strings as character sequences                                          *)
(***************************************************************************)
UpperChars == <<"A","B","C","D","E","F","G","H","I","J","K","L","M",
                "N","O","P","Q","R","S","T","U","V","W","X","Y","Z">>
LowerChars == <<"a","b","c","d","e","f","g","h","i","j","k","l","m",
                "n","o","p","q","r","s","t","u","v","w","x","y","z">>

\* The cells the model draws, spelled out.
Chars(s) ==
    CASE s = "" -> <<>>
      [] s = "ABC  Tennis   Club" ->
            <<"A","B","C"," "," ","T","e","n","n","i","s"," "," "," ","C","l","u","b">>
      [] s = "abc tc" -> <<"a","b","c"," ","t","c">>
      [] s = "Bay TC" -> <<"B","a","y"," ","T","C">>
      [] s = "Tennis Club" -> <<"T","e","n","n","i","s"," ","C","l","u","b">>
      [] s = "River Club" -> <<"R","i","v","e","r"," ","C","l","u","b">>
      [] s = "https://www.Abc.ca/" ->
            <<"h","t","t","p","s",":","/","/","w","w","w",".","A","b","c",".","c","a","/">>
      [] s = "abc.ca" -> <<"a","b","c",".","c","a">>
      [] s = "http://bay.ca" -> <<"h","t","t","p",":","/","/","b","a","y",".","c","a">>
      [] s = " " -> <<" ">>
      [] s = "Private" -> <<"P","r","i","v","a","t","e">>
      [] s = "Public" -> <<"P","u","b","l","i","c">>
      [] s = "Community" -> <<"C","o","m","m","u","n","i","t","y">>
      [] s = "Associate" -> <<"A","s","s","o","c","i","a","t","e">>
      [] s = "Other" -> <<"O","t","h","e","r">>
      [] s = "Open" -> <<"O","p","e","n">>
      [] s = "Wait list" -> <<"W","a","i","t"," ","l","i","s","t">>
      [] s = "Full" -> <<"F","u","l","l">>

IsWs(c) == c = " "

\* (str.lower() left out)
KeepCase(s) == s

\* str.lower()
LowerChar(c) ==
    IF \E i \in 1..Len(UpperChars) : UpperChars[i] = c
    THEN LowerChars[CHOOSE i \in 1..Len(UpperChars) : UpperChars[i] = c]
    ELSE c
Lower(s) == [i \in 1..Len(s) |-> LowerChar(s[i])]

\* str.strip()
RECURSIVE LStrip(_)
LStrip(s) == IF s # <<>> /\ IsWs(Head(s)) THEN LStrip(Tail(s)) ELSE s
RECURSIVE RStrip(_)
RStrip(s) == IF s # <<>> /\ IsWs(s[Len(s)]) THEN RStrip(SubSeq(s, 1, Len(s) - 1)) ELSE s
Strip(s) == RStrip(LStrip(s))

\* s[i..] starts with w
StartsWithAt(s, i, w) ==
    /\ i + Len(w) - 1 <= Len(s)
    /\ \A k \in 1..Len(w) : s[i + k - 1] = w[k]

\* w in s
Contains(w, s) == \E i \in 1..(Len(s) + 1) : StartsWithAt(s, i, w)

\* first index >= i of s that is not whitespace (Len(s)+1 when there is none)
RECURSIVE SkipWs(_, _)
SkipWs(s, i) == IF i <= Len(s) /\ IsWs(s[i]) THEN SkipWs(s, i + 1) ELSE i

\* re.sub(r'\s+', ' ', s)
RECURSIVE CollapseWs(_)
CollapseWs(s) ==
    IF s = <<>> THEN <<>>
    ELSE IF IsWs(Head(s))
         THEN <<" ">> \o CollapseWs(SubSeq(s, SkipWs(s, 1), Len(s)))
         ELSE <<Head(s)>> \o CollapseWs(Tail(s))

\* End (exclusive) of a match of \s*w1\s*w2...\s* that starts at i; 0 when none.
RECURSIVE MatchWords(_, _, _)
MatchWords(s, i, words) ==
    IF words = <<>> THEN SkipWs(s, i)
    ELSE LET j == SkipWs(s, i) IN
         IF StartsWithAt(s, j, Head(words))
         THEN MatchWords(s, j + Len(Head(words)), Tail(words))
         ELSE 0

\* re.sub(r'\s*w1\s*w2\s*', ' ', s): leftmost non-overlapping matches, from i
RECURSIVE SubWords(_, _, _)
SubWords(s, i, words) ==
    IF i > Len(s) THEN <<>>
    ELSE LET e == MatchWords(s, i, words) IN
         IF e > 0 THEN <<" ">> \o SubWords(s, e, words)
         ELSE <<s[i]>> \o SubWords(s, i + 1, words)

TennisW == <<"t","e","n","n","i","s">>
ClubW == <<"c","l","u","b">>
TcW == <<"t","c">>

\* DataMerger.normalize_name, lines 48-54, on the characters of str(name)
normalize_name_str(s) ==
    LET a == Strip(Lower(s))
        b == CollapseWs(a)
        c == SubWords(b, 1, <<TennisW, ClubW>>)
        d == SubWords(c, 1, <<TcW>>)
    IN Strip(d)

\* DataMerger.normalize_name
normalize_name(name) ==
    IF name = NaN THEN <<>> ELSE normalize_name_str(Chars(name))

HttpW == <<"h","t","t","p",":","/","/">>
HttpsW == <<"h","t","t","p","s",":","/","/">>
WwwW == <<"w","w","w",".">>

DropPrefix(s, w) == IF StartsWithAt(s, 1, w) THEN SubSeq(s, Len(w) + 1, Len(s)) ELSE s

\* DataMerger.normalize_url, lines 60-64, on the characters of str(url)
normalize_url_str(s) ==
    LET a == Strip(Lower(s))
        b == IF StartsWithAt(a, 1, HttpsW) THEN DropPrefix(a, HttpsW)
             ELSE DropPrefix(a, HttpW)
        c == DropPrefix(b, WwwW)
    IN IF c # <<>> /\ c[Len(c)] = "/" THEN SubSeq(c, 1, Len(c) - 1) ELSE c

\* DataMerger.normalize_url
normalize_url(url) ==
    IF url = NaN THEN <<>> ELSE normalize_url_str(Chars(url))

\* ---- the names and URLs drawn for the normalizers: a lead of blanks, a base
\* ---- (id, spelled in either case), a gap, a suffix; a scheme, a 'www.', a host, a slash
NameBases ==
    {[id |-> "abc", chars |-> <<"a","b","c">>], [id |-> "abc", chars |-> <<"A","B","C">>],
     [id |-> "dutch", chars |-> <<"d","u","t","c","h">>],
     [id |-> "dutch", chars |-> <<"D","u","t","c","h">>]}
NameLeads == {<<>>, <<" ">>}
NameGaps == {<<" ">>, <<" "," ">>}
NameSuffixes ==
    {<<"T","e","n","n","i","s"," "," "," ","C","l","u","b">>,
     <<"t","e","n","n","i","s"," ","c","l","u","b">>,
     <<"t","c">>, <<"T","C">>}
DrawnNames ==
    {[id |-> b.id, chars |-> l \o b.chars \o g \o x] :
        l \in NameLeads, b \in NameBases, g \in NameGaps, x \in NameSuffixes}

UrlHosts ==
    {[id |-> "abc.ca", chars |-> <<"a","b","c",".","c","a">>],
     [id |-> "abc.ca", chars |-> <<"A","b","c",".","C","A">>],
     [id |-> "bay.ca", chars |-> <<"b","a","y",".","c","a">>]}
UrlSchemes == {<<>>, HttpW, HttpsW, <<"H","T","T","P","S",":","/","/">>}
UrlWww == {<<>>, WwwW, <<"W","w","w",".">>}
UrlSlashes == {<<>>, <<"/">>}
DrawnUrls ==
    {[id |-> h.id, chars |-> sc \o w \o h.chars \o sl] :
        sc \in UrlSchemes, w \in UrlWww, h \in UrlHosts, sl \in UrlSlashes}

(***************************************************************************)
(* data_merger.py: build_lookup_dict and get_existing_data                 *)
(***************************************************************************)
MaxOtaRows == 2
MaxTorontoRows == 2

\* DataMerger.map_club_type
map_club_type(club_type) ==
    IF club_type = NaN THEN NA
    ELSE LET t == Lower(Chars(club_type)) IN
         IF Contains(Lower(Chars("Private")), t) THEN "Private"
         ELSE IF Contains(Lower(Chars("Public")), t) \/ Contains(Lower(Chars("Community")), t)
              THEN "Public"
         ELSE IF Contains(<<"c","o","m","m","e","r","c","i","a","l">>, t)
                 \/ Contains(Lower(Chars("Associate")), t)
              THEN "Commercial"
         ELSE NA

\* DataMerger.map_membership_status
map_membership_status(status) ==
    IF status = NaN THEN NA
    ELSE LET t == Lower(Chars(status)) IN
         IF Contains(<<"o","p","e","n">>, t) THEN "Open"
         ELSE IF Contains(<<"w","a","i","t","l","i","s","t">>, t) \/ Contains(<<"w","a","i","t">>, t)
              THEN "Waitlist"
         ELSE IF Contains(<<"c","l","o","s","e","d">>, t) \/ Contains(<<"f","u","l","l">>, t)
              THEN "Closed"
         ELSE NA

\* The 'courts' cells drawn: a float cell, a text cell without digits, and a
\* text cell "4.5" (digits once the dot is removed, but not an int literal).
CourtsCells == {NaN, "float 4.0", "text TBD", "text 4.5"}
\* str(courts).replace('.', '').isdigit()
CourtsIsDigits(c) == c \in {"float 4.0", "text 4.5"}
\* int(courts) raises ValueError on the text "4.5"
CourtsIntRaises(c) == c = "text 4.5"
CourtsInt(c) == CASE c = "float 4.0" -> "4"

\* data_merger.py line 120
CourtsField(c) == IF c # NaN /\ CourtsIsDigits(c) THEN CourtsInt(c) ELSE NA

\* The dict literal of an OTA row
OtaData(row) ==
    ("source" :> "OTA") @@
    ("Club Name" :> row.name) @@
    ("Email" :> IF row.email # NaN /\ row.email # "" THEN row.email ELSE NA) @@
    ("Location" :> IF row.location # NaN THEN row.location ELSE NA) @@
    ("Club Type" :> map_club_type(row.type)) @@
    ("Website" :> IF row.website_url # NaN THEN row.website_url ELSE NA)

\* The dict literal of a Toronto row
TorontoData(row) ==
    ("source" :> "Toronto") @@
    ("Club Name" :> row.name) @@
    ("Number of Courts" :> CourtsField(row.courts)) @@
    ("Membership Status" :> map_membership_status(row.membership_status)) @@
    ("Phone" :> IF row.phone # NaN THEN row.phone ELSE NA) @@
    ("Club Type" :> map_club_type(row.type)) @@
    ("Website" :> IF row.website_url # NaN THEN row.website_url ELSE NA)

\* d[k] = v on a dict (adds the key when absent)
DictSet(d, k, v) == [x \in DOMAIN d \cup {k} |-> IF x = k THEN v ELSE d[x]]

\* existing.update(data): the update without the 'N/A' filter
UpdateAll(existing, data) ==
    [k \in DOMAIN existing \cup DOMAIN data |->
        IF k \in DOMAIN data THEN data[k] ELSE existing[k]]

\* existing.update({k: v for k, v in data.items() if v != 'N/A'})
UpdateNonNA(existing, data) ==
    [k \in DOMAIN existing \cup {x \in DOMAIN data : data[x] # NA} |->
        IF k \in DOMAIN data /\ data[k] # NA THEN data[k] ELSE existing[k]]

\* The amend of lines 130-131
AmendEntry(existing, data) == DictSet(UpdateNonNA(existing, data), "source", "OTA+Toronto")

\* Python binds keys to dict objects: merged_data maps a key to the dict's content
\* and sameObj partitions the keys by the object they are bound to.

\* merged_data[k] = <a new object with content d>, for every k of keys
BindNew(t, keys, d) ==
    IF keys = {} THEN t
    ELSE [md |-> [k \in DOMAIN t.md \cup keys |-> IF k \in keys THEN d ELSE t.md[k]],
          same |-> {c \ keys : c \in {c \in t.same : c \ keys # {}}} \cup {keys}]

\* The keys bound to the object that key k is bound to
Aliases(t, k) == CHOOSE c \in t.same : k \in c

\* merged_data[k].<mutation>: the object changes, so every key bound to it sees d
Mutate(t, k, d) ==
    [md |-> [x \in DOMAIN t.md |-> IF x \in Aliases(t, k) THEN d ELSE t.md[x]],
     same |-> t.same]

\* The body of the OTA loop for one row (lines 73-98)
OtaRowStep(t, row) ==
    IF row.name = NaN THEN t
    ELSE LET name_key == normalize_name(row.name)
             url_key == normalize_url(row.website_url)
         IN BindNew(t, {k \in {name_key, url_key} : k # <<>>}, OtaData(row))

\* The body of the Toronto loop for one row (lines 103-137), when line 120 does not raise
TorontoRowStep(t, row) ==
    IF row.name = NaN THEN t
    ELSE LET name_key == normalize_name(row.name)
             url_key == normalize_url(row.website_url)
             data == TorontoData(row)
             amend == name_key \in DOMAIN t.md
             \* lines 136-137, evaluated after lines 128-134
             urlNew == url_key # <<>> /\ url_key \notin DOMAIN t.md /\ url_key # name_key
         IN IF amend
            THEN BindNew(Mutate(t, name_key, AmendEntry(t.md[name_key], data)),
                         IF urlNew THEN {url_key} ELSE {}, data)
            ELSE BindNew(t, (IF name_key # <<>> THEN {name_key} ELSE {})
                            \cup (IF urlNew THEN {url_key} ELSE {}), data)

\* DataMerger.get_existing_data: the key whose entry is returned, <<"None">> for None
NoKey == <<"None">>
\* (the lookup that tries the URL key first)
get_existing_key_url_first(md, club_name, website) ==
    LET name_key == normalize_name(club_name)
        url_key == normalize_url(website)
    IN IF url_key \in DOMAIN md THEN url_key
       ELSE IF name_key \in DOMAIN md THEN name_key
       ELSE NoKey
get_existing_key(md, club_name, website) ==
    LET name_key == normalize_name(club_name)
        url_key == normalize_url(website)
    IN IF name_key \in DOMAIN md THEN name_key
       ELSE IF url_key \in DOMAIN md THEN url_key
       ELSE NoKey

\* ---- the rows drawn ----
\* Every cell is missing (NaN) or present; the cells only one of the rows of a
\* club can fill first (website, type, location / membership) are missing or
\* present together.  Names with equal keys ("ABC  Tennis   Club" / "abc tc"), a
\* name whose key is empty ("Tennis Club") and URLs with equal keys
\* ("https://www.Abc.ca/" / "abc.ca") occur across the sources.
OtaRows ==
    {[name |-> n, email |-> e, website_url |-> x[1], type |-> x[2], location |-> x[3]] :
        n \in {NaN, "ABC  Tennis   Club", "Tennis Club"},
        e \in {NaN, "a@x.com"},
        x \in {<<NaN, NaN, NaN>>, <<"https://www.Abc.ca/", "Private", "Toronto">>}}

TorontoRows ==
    {[name |-> n, courts |-> c, website_url |-> x[1], type |-> x[2],
      membership_status |-> x[3], phone |-> NaN] :
        n \in {NaN, "abc tc", "Bay TC"},
        c \in CourtsCells,
        x \in {<<NaN, NaN, NaN>>, <<"abc.ca", "Public", "Wait list">>}}

EmptyTable == [md |-> [k \in {} |-> NA], same |-> {}]
Table == [md |-> merged_data, same |-> sameObj]

\* line 120 raises for this row
RowRaises(row) ==
    row.name # NaN /\ row.courts # NaN /\ CourtsIsDigits(row.courts) /\ CourtsIntRaises(row.courts)

MergerInit ==
    /\ mphase = "ota" /\ otaCount = 0 /\ torCount = 0
    /\ merged_data = EmptyTable.md /\ sameObj = EmptyTable.same

\* One iteration of the loop of line 72
OtaRow ==
    /\ mphase = "ota" /\ otaCount < MaxOtaRows
    /\ \E row \in OtaRows :
         LET r == OtaRowStep(Table, row) IN
         /\ merged_data' = r.md
         /\ sameObj' = r.same
    /\ otaCount' = otaCount + 1
    /\ UNCHANGED <<mphase, torCount>>

\* The OTA loop ends (or ota_data is None): line 101
OtaEnd ==
    /\ mphase = "ota"
    /\ mphase' = "toronto"
    /\ UNCHANGED <<otaCount, torCount, merged_data, sameObj>>

\* One iteration of the loop of line 102
TorontoRow ==
    /\ mphase = "toronto" /\ torCount < MaxTorontoRows
    /\ \E row \in TorontoRows :
         /\ ~RowRaises(row)
         /\ LET r == TorontoRowStep(Table, row) IN
            /\ merged_data' = r.md
            /\ sameObj' = r.same
    /\ torCount' = torCount + 1
    /\ UNCHANGED <<mphase, otaCount>>

\* int(courts) raises at line 120: build_lookup_dict is left by the exception
TorontoRowRaises ==
    /\ mphase = "toronto" /\ torCount < MaxTorontoRows
    /\ \E row \in TorontoRows : RowRaises(row)
    /\ mphase' = "raised"
    /\ torCount' = torCount + 1
    /\ UNCHANGED <<otaCount, merged_data, sameObj>>

\* The Toronto loop ends (or toronto_data is None): line 139
TorontoEnd ==
    /\ mphase = "toronto"
    /\ mphase' = "done"
    /\ UNCHANGED <<otaCount, torCount, merged_data, sameObj>>

(***************************************************************************)
(* scraper_simple.py, scraper_js.py, scraper_hybrid.py: scrape_club        *)
(* A page is what the fetch returned, seen through the extractors: the     *)
(* length of its visible text, the framework-script flag, and the value    *)
(* each extractor returns on it ('N/A' when it finds nothing).             *)
(***************************************************************************)
ExtractOrder == <<"Email", "Location", "Club Type", "Membership Status", "Waitlist Length",
                  "Number of Courts", "Court Surface", "Operating Season">>
ExtractedFields == {ExtractOrder[i] : i \in 1..Len(ExtractOrder)}
RecordKeys == {"Club Name", "Website", "Scrape Status"} \cup ExtractedFields
\* the keys seeded from the Merger, scraper_simple.py lines 310-311
PreloadKeys == {"Email", "Location", "Club Type", "Membership Status",
                "Number of Courts", "Court Surface", "Operating Season"}

None == [k \in {} |-> NA]     \* get_existing_data found nothing

MinTextLen == 200             \* scraper_simple.py line 368
JsLimitedNA == 5              \* scraper_simple.py line 395
MinimalFields == 3            \* scraper_hybrid.py line 101

\* str.startswith('Pre-loaded') / str.startswith('Success') on the statuses built here
IsPreloadedStatus(st) == st \in {"Pre-loaded (OTA)", "Pre-loaded (Toronto)",
                                 "Pre-loaded (OTA+Toronto)", "Pre-loaded (DB)"}
PreloadedStatus(existing) ==
    IF "source" \notin DOMAIN existing THEN "Pre-loaded (DB)"
    ELSE CASE existing["source"] = "OTA" -> "Pre-loaded (OTA)"
           [] existing["source"] = "Toronto" -> "Pre-loaded (Toronto)"
           [] existing["source"] = "OTA+Toronto" -> "Pre-loaded (OTA+Toronto)"
IsSuccessStatus(st) == st \in {"Success", "Success (JS-limited)", "Success (JS-enabled)",
                               "Success (Hybrid)", "Success (Hybrid+Pre-loaded)"}

\* scraper_simple.py lines 288-300 and scraper_js.py lines 34-46
NewResult(url, club_name) ==
    [k \in RecordKeys |->
        CASE k = "Club Name" -> club_name
          [] k = "Website" -> url
          [] k = "Scrape Status" -> "Failed"
          [] OTHER -> NA]

\* scraper_simple.py lines 303-317: the record after the Merger was consulted
Seed(result, existing) ==
    IF existing = None THEN result
    ELSE LET r1 == [k \in RecordKeys |->
                      IF k \in PreloadKeys /\ k \in DOMAIN existing /\ existing[k] # NA
                      THEN existing[k] ELSE result[k]]
         IN IF r1["Email"] # NA \/ r1["Number of Courts"] # NA
            THEN [r1 EXCEPT !["Scrape Status"] = PreloadedStatus(existing)]
            ELSE r1

\* the extraction without the "if result[...] == 'N/A'" guards
ExtractOverwriting(result, page, n) ==
    [k \in RecordKeys |->
        IF \E i \in 1..(n - 1) : ExtractOrder[i] = k THEN page.found[k] ELSE result[k]]

\* scraper_simple.py lines 374-389, up to and without the n-th extractor:
\* a field is extracted only where the record still holds 'N/A'
ExtractUpTo(result, page, n) ==
    [k \in RecordKeys |->
        IF /\ \E i \in 1..(n - 1) : ExtractOrder[i] = k
           /\ result[k] = NA
        THEN page.found[k] ELSE result[k]]

\* Index in ExtractOrder of the extractor that raises on this page for this record
\* (0: none). extract_courts_count raises when int() refuses the digits it matched.
RaisingExtractor(result, page) ==
    IF page.courtsRaise /\ result["Number of Courts"] = NA THEN 6 ELSE 0

CountNA(result) == Cardinality({k \in RecordKeys : result[k] = NA})

\* The status of the except clauses, scraper_simple.py lines 410-433
FailureStatus(fetch) ==
    CASE fetch = "Timeout" -> "Timeout after 15s"
      [] fetch = "HTTPError 404" -> "HTTP 404"
      [] fetch = "HTTPError 503" -> "HTTP 503"
      [] fetch = "ConnectionError" -> "Connection failed"
      [] fetch = "TooManyRedirects" -> "Too many redirects"
      [] fetch = "OSError" -> "OSError: fetch"

FetchOutcomes == {"ok", "Timeout", "HTTPError 404", "HTTPError 503", "ConnectionError",
                  "TooManyRedirects", "OSError"}

\* TennisClubScraper.scrape_club (scraper_simple.py lines 286-435)
SimpleScrapeClub(existing, url, club_name, fetch, page) ==
    LET seeded == Seed(NewResult(url, club_name), existing) IN
    IF fetch # "ok"
    THEN [seeded EXCEPT !["Scrape Status"] = FailureStatus(fetch)]
    ELSE IF page.textLen < MinTextLen
    THEN [seeded EXCEPT !["Scrape Status"] = "JS-heavy (limited data)"]
    ELSE LET n == RaisingExtractor(seeded, page) IN
         IF n # 0
         THEN [ExtractUpTo(seeded, page, n) EXCEPT
                  !["Scrape Status"] = "ValueError: Exceeds the limit"]
         ELSE LET r == ExtractUpTo(seeded, page, Len(ExtractOrder) + 1) IN
              IF IsPreloadedStatus(r["Scrape Status"]) THEN r
              ELSE IF page.jsHeavy /\ CountNA(r) > JsLimitedNA
                   THEN [r EXCEPT !["Scrape Status"] = "Success (JS-limited)"]
                   ELSE [r EXCEPT !["Scrape Status"] = "Success"]

\* The fields JavaScriptScraper fills, in the order of scraper_js.py lines 82-89
JsOrder == <<"Email", "Location", "Number of Courts", "Court Surface",
             "Membership Status", "Club Type">>
JsOutcomes == {"ok", "PlaywrightTimeout", "Error"}

\* JavaScriptScraper.scrape_club (scraper_js.py lines 32-106)
JsScrapeClub(url, club_name, jsFetch, jsPage) ==
    LET r0 == NewResult(url, club_name)
        upTo(n) == [k \in RecordKeys |->
                      IF \E i \in 1..(n - 1) : JsOrder[i] = k THEN jsPage.found[k] ELSE r0[k]]
    IN IF jsFetch = "PlaywrightTimeout" THEN [r0 EXCEPT !["Scrape Status"] = "Timeout (JS)"]
       ELSE IF jsFetch = "Error" THEN [r0 EXCEPT !["Scrape Status"] = "JS Error: Error"]
       ELSE IF jsPage.courtsRaise
            THEN [upTo(3) EXCEPT !["Scrape Status"] = "JS Error: ValueError"]
            ELSE [upTo(Len(JsOrder) + 1) EXCEPT !["Scrape Status"] = "Success (JS-enabled)"]

\* HybridScraper._has_minimal_data (scraper_hybrid.py lines 88-101)
has_minimal_data(result) ==
    LET data_fields == {"Email", "Location", "Club Type", "Membership Status",
                        "Waitlist Length", "Number of Courts", "Court Surface"}
        non_na_count == Cardinality({f \in data_fields : result[f] # NA})
    IN IF IsPreloadedStatus(result["Scrape Status"]) THEN FALSE
       ELSE non_na_count < MinimalFields

\* the retry decision that does not look at the static pass
should_retry_always(use_js_fallback, result) == use_js_fallback

\* the retry decision without the 'JS-heavy (limited data)' trigger
should_retry_minimal_only(use_js_fallback, result) ==
    /\ use_js_fallback
    /\ result["Scrape Status"] = "Success" /\ has_minimal_data(result)

\* scraper_hybrid.py lines 50-57
should_retry_with_js(use_js_fallback, result) ==
    /\ use_js_fallback
    /\ \/ result["Scrape Status"] = "JS-heavy (limited data)"
       \/ result["Scrape Status"] = "Success" /\ has_minimal_data(result)

\* scraper_hybrid.py lines 62-84: the record after the script-rendered retry
HybridMerge(result, js_result) ==
    LET pre_loaded_data == {k \in ExtractedFields : result[k] # NA}
        merged == [k \in RecordKeys |->
                     IF k \notin {"Club Name", "Website"} /\ result[k] = NA /\ js_result[k] # NA
                     THEN js_result[k] ELSE result[k]]
    IN IF IsSuccessStatus(js_result["Scrape Status"])
       THEN [merged EXCEPT !["Scrape Status"] =
                IF pre_loaded_data # {} THEN "Success (Hybrid+Pre-loaded)"
                ELSE "Success (Hybrid)"]
       ELSE merged

\* HybridScraper.scrape_club (scraper_hybrid.py lines 39-86)
HybridScrapeClub(use_js_fallback, existing, url, club_name, fetch, page, jsFetch, jsPage) ==
    LET result == SimpleScrapeClub(existing, url, club_name, fetch, page) IN
    IF should_retry_with_js(use_js_fallback, result)
    THEN HybridMerge(result, JsScrapeClub(url, club_name, jsFetch, jsPage))
    ELSE result

\* ---- the inputs drawn ----
\* The tables build_lookup_dict yields from at most one row of each source
ScrapeTables ==
    {TorontoRowStep(OtaRowStep(EmptyTable, o), t).md :
        o \in OtaRows, t \in {r \in TorontoRows : ~RowRaises(r)}}

ScrapeClubs == {[name |-> "ABC  Tennis   Club", url |-> "abc.ca"],
                [name |-> "River Club", url |-> "http://bay.ca"]}

\* get_existing_data's return value: the dict, or None
Existing(md, club_name, website) ==
    LET k == get_existing_key(md, club_name, website) IN
    IF k = NoKey THEN None ELSE md[k]

\* What get_existing_data can return for the clubs drawn
ScrapeEntries == {Existing(md, c.name, c.url) : md \in ScrapeTables, c \in ScrapeClubs}

\* What the static extractors return on a page when they find their field
PageValue(k) ==
    CASE k = "Email" -> "info@page.org"
      [] k = "Location" -> "Markham"
      [] k = "Club Type" -> "Public"
      [] k = "Membership Status" -> "Open"
      [] k = "Waitlist Length" -> "12"
      [] k = "Number of Courts" -> "6"
      [] k = "Court Surface" -> "Hard"
      [] k = "Operating Season" -> "Year-round"
\* What the script-rendered extractors return when they find their field
JsValue(k) ==
    CASE k = "Email" -> "club@rendered.org"
      [] k = "Location" -> "Oakville"
      [] k = "Club Type" -> "Private"
      [] k = "Membership Status" -> "Waitlist"
      [] k = "Number of Courts" -> "8"
      [] k = "Court Surface" -> "Clay"
      [] OTHER -> NA

FoundChoices == {{}, {"Email"}, {"Email", "Location"}, {"Club Type", "Number of Courts"},
                 ExtractedFields}
Pages ==
    {[textLen |-> n, jsHeavy |-> j, courtsRaise |-> cr,
      found |-> [k \in ExtractedFields |-> IF k \in S THEN PageValue(k) ELSE NA]] :
        n \in {50, 5000}, j \in BOOLEAN, cr \in BOOLEAN, S \in FoundChoices}
NoPage == [textLen |-> 0, jsHeavy |-> FALSE, courtsRaise |-> FALSE,
           found |-> [k \in ExtractedFields |-> NA]]
\* the outcome of session.get / raise_for_status with the page it returned
FetchResults ==
    {[outcome |-> f, page |-> NoPage] : f \in FetchOutcomes \ {"ok"}}
    \cup {[outcome |-> "ok", page |-> p] : p \in Pages}

JsFoundChoices == {{}, {"Email", "Location"}, {"Email", "Club Type", "Number of Courts"}}
JsPages ==
    {[courtsRaise |-> cr,
      found |-> [k \in ExtractedFields |-> IF k \in S THEN JsValue(k) ELSE NA]] :
        cr \in BOOLEAN, S \in JsFoundChoices}
NoJsPage == [courtsRaise |-> FALSE, found |-> [k \in ExtractedFields |-> NA]]
JsResults ==
    {[outcome |-> f, page |-> NoJsPage] : f \in JsOutcomes \ {"ok"}}
    \cup {[outcome |-> "ok", page |-> p] : p \in JsPages}
JsNotCalled == [outcome |-> "not called", page |-> NoJsPage]

NoCall == [op |-> "none"]

\* The caller takes the record; the scraper keeps nothing of the call
CallReturn ==
    /\ call # NoCall
    /\ call' = NoCall

\* A call of TennisClubScraper.scrape_club: inputs and returned record
StaticCall ==
    /\ call = NoCall
    /\ \E existing \in ScrapeEntries, c \in ScrapeClubs, f \in FetchResults :
         call' = [op |-> "static", existing |-> existing, club |-> c, fetch |-> f,
                 use_js |-> FALSE, js |-> JsNotCalled,
                 static |-> SimpleScrapeClub(existing, c.url, c.name, f.outcome, f.page),
                 result |-> SimpleScrapeClub(existing, c.url, c.name, f.outcome, f.page)]

\* A call of HybridScraper.scrape_club: inputs, the record of the static pass,
\* the outcome of the script-rendered pass when it ran, and the returned record
HybridCall ==
    /\ call = NoCall
    /\ \E existing \in ScrapeEntries, c \in ScrapeClubs, f \in FetchResults, use_js \in BOOLEAN :
        LET static == SimpleScrapeClub(existing, c.url, c.name, f.outcome, f.page) IN
        \E j \in (IF should_retry_with_js(use_js, static) THEN JsResults ELSE {JsNotCalled}) :
            call' = [op |-> "hybrid", existing |-> existing, club |-> c, fetch |-> f,
                     use_js |-> use_js, js |-> j, static |-> static,
                     result |-> HybridScrapeClub(use_js, existing, c.url, c.name,
                                                 f.outcome, f.page, j.outcome, j.page)]

(***************************************************************************)
(* app.py: start_scraping and background_scraping_task                     *)
(* Requests POST /api/start-scraping are numbered in the order in which    *)
(* they reach the running check; the thread request r starts is worker r.  *)
(***************************************************************************)
MaxRequests == 3           \* POST /api/start-scraping requests received
Requests == 1..MaxRequests
Workers == Requests

\* app.py lines 40-47
InitialStatus == [running |-> FALSE, progress |-> 0, total |-> 0, current_club |-> "",
                  results |-> <<>>, errors |-> <<>>]
\* app.py lines 196-203
ResetStatus == [running |-> TRUE, progress |-> 0, total |-> 0, current_club |-> "",
                results |-> <<>>, errors |-> <<>>]

Malformed == "<float 12.0>"   \* a Website cell that is a number: not NaN, not a string

\* (the same test without the strip)
HasWebsiteNotStripped(website) == website # NaN
\* pd.notna(website) and website.strip(), app.py line 86 (for a string or NaN cell)
HasWebsite(website) == website # NaN /\ Strip(Chars(website)) # <<>>
\* website.strip() raises AttributeError on a cell that is not a string
WebsiteRaises(website) == website = Malformed

\* dict.get(key, 'N/A')
Get(d, k) == IF k \in DOMAIN d THEN d[k] ELSE NA

\* app.py lines 96-124: the record of a row without website
NoWebsiteRecord(existing, club_name) ==
    [k \in RecordKeys |->
        CASE k = "Club Name" -> club_name
          [] k = "Website" -> NA
          [] k = "Scrape Status" ->
                IF existing = None THEN "No website" ELSE PreloadedStatus(existing)
          [] k \in {"Email", "Location", "Club Type", "Membership Status", "Number of Courts"} ->
                IF existing = None THEN NA ELSE Get(existing, k)
          [] OTHER -> NA]

\* (the entry when the lookup hands its values over and keeps none)
EntryConsumed(existing, result) ==
    [k \in DOMAIN existing |-> IF k \in PreloadKeys THEN NA ELSE existing[k]]
\* (the entry when the record is the entry itself and is then filled in)
EntryWrittenThrough(existing, result) ==
    [k \in DOMAIN existing |-> IF k \in DOMAIN result THEN result[k] ELSE existing[k]]
\* The Merger's entry after scrape_club, or the worker's branch for a row without
\* website, has built the record result from it: the code reads existing_data
\* (existing_data[key], .get) and assigns to its own dict only (scraper_simple.py
\* lines 288-317, app.py lines 96-110, scraper_hybrid.py lines 72-84)
EntryAfterRead(existing, result) == existing

\* merged_data after get_existing_data(club_name, website) was called and the
\* record result built from what it returned
TableAfterRead(md, same, club_name, website, result) ==
    LET key == get_existing_key(md, club_name, website) IN
    IF key = NoKey THEN md
    ELSE Mutate([md |-> md, same |-> same], key, EntryAfterRead(md[key], result)).md

\* df.head(max_clubs) under "if max_clubs:", app.py lines 59-60
Head_(df, max_clubs) ==
    IF max_clubs = 0 \/ max_clubs >= Len(df) THEN df ELSE SubSeq(df, 1, max_clubs)

\* ---- the inputs drawn ----
\* max_clubs absent (0) or 1; use_js_fallback
RequestArgs == {[max_clubs |-> 0, use_js_fallback |-> FALSE],
                [max_clubs |-> 1, use_js_fallback |-> TRUE]}

WebRow == [name |-> "River Club", website |-> "http://bay.ca"]
BlankRow == [name |-> "River Club", website |-> " "]
NaNRow == [name |-> "River Club", website |-> NaN]
KnownRow == [name |-> "abc tc", website |-> NaN]
KnownWebRow == [name |-> "abc tc", website |-> "http://bay.ca"]
MalformedRow == [name |-> "River Club", website |-> Malformed]
\* a row whose Club Name and Website cells are both empty
NamelessRow == [name |-> NaN, website |-> NaN]
Rosters == {<<WebRow, BlankRow>>, <<KnownRow, WebRow>>, <<MalformedRow, WebRow>>,
            <<NaNRow, KnownWebRow>>, <<NamelessRow, WebRow>>,
            <<KnownWebRow, KnownWebRow>>}
\* The rosters of the runs with MaxRequests requests
RaceRosters == {<<WebRow, BlankRow>>, <<WebRow, WebRow>>}

\* The table initialize_data_merger built: the entry of one OTA row amended by one
\* Toronto row
AmendedTable ==
    TorontoRowStep(
        OtaRowStep(EmptyTable,
            [name |-> "ABC  Tennis   Club", email |-> "a@x.com", website_url |-> NaN,
             type |-> "Private", location |-> NaN]),
        [name |-> "abc tc", courts |-> "float 4.0", website_url |-> NaN, type |-> NaN,
         membership_status |-> NaN, phone |-> NaN]).md

LongPage == [textLen |-> 5000, jsHeavy |-> FALSE, courtsRaise |-> FALSE,
             found |-> [k \in ExtractedFields |-> PageValue(k)]]
ShortPage == [textLen |-> 50, jsHeavy |-> FALSE, courtsRaise |-> FALSE,
              found |-> [k \in ExtractedFields |-> NA]]
EmailJsPage == [courtsRaise |-> FALSE,
                found |-> [k \in ExtractedFields |-> IF k = "Email" THEN JsValue(k) ELSE NA]]
ScrapeRaises == [outcome |-> "scrape_club raises", page |-> NoPage]

\* How the sites answer during the run, and whether Playwright is installed
PlainSite == [playwright |-> FALSE, fetch |-> [outcome |-> "ok", page |-> LongPage],
              js |-> JsNotCalled]
Sites ==
    {PlainSite,
     [playwright |-> TRUE, fetch |-> [outcome |-> "ok", page |-> ShortPage],
      js |-> [outcome |-> "ok", page |-> EmailJsPage]],
     [playwright |-> TRUE, fetch |-> [outcome |-> "HTTPError 404", page |-> NoPage],
      js |-> [outcome |-> "PlaywrightTimeout", page |-> NoJsPage]],
     [playwright |-> FALSE, fetch |-> ScrapeRaises, js |-> JsNotCalled]}

\* Nothing observed of a worker: the flag was not cleared under it, and it has made
\* no fetch (static, js: row -> the fetches of either kind made for the row)
NotStopped == [stopped |-> FALSE, kept |-> <<>>, static |-> <<>>, js |-> <<>>]

AppInit ==
    /\ scraping_status = InitialStatus
    /\ rpc = [r \in Requests |-> "idle"]
    /\ wpc = [w \in Workers |-> "none"]
    /\ wdf = [w \in Workers |-> <<>>]
    /\ widx = [w \in Workers |-> 0]
    /\ warg = [w \in Workers |-> [max_clubs |-> 0, use_js_fallback |-> FALSE]]
    /\ persisted = <<>>
    /\ obs = [w \in Workers |-> NotStopped]
    /\ \/ \E ro \in Rosters, s \in Sites, n \in 1..(MaxRequests - 1) :
            env = [roster |-> ro, site |-> s, posts |-> n]
       \/ \E ro \in RaceRosters : env = [roster |-> ro, site |-> PlainSite, posts |-> MaxRequests]

\* scraping_status['running'] = False (lines 139, 143) by worker w, whose thread ends
\* there (its locals df and idx are gone); with what is observed of the workers that
\* are processing a club at that moment
ClearRunning(st, w) ==
    /\ scraping_status' = [st EXCEPT !.running = FALSE]
    /\ obs' = [v \in Workers |->
                IF v # w /\ wpc[v] = "scraping" /\ st.running /\ ~obs[v].stopped
                THEN [obs[v] EXCEPT !.stopped = TRUE, !.kept = st.results]
                ELSE IF v = w THEN NotStopped ELSE obs[v]]
    /\ wpc' = [wpc EXCEPT ![w] = "done"]
    /\ wdf' = [wdf EXCEPT ![w] = <<>>]
    /\ widx' = [widx EXCEPT ![w] = 0]

\* start_scraping, lines 188-189: the running check
StartCheck(r) ==
    /\ rpc[r] = "idle" /\ r <= env.posts
    /\ \A q \in Requests : q < r => rpc[q] # "idle"
    /\ rpc' = [rpc EXCEPT ![r] = IF scraping_status.running THEN "rejected" ELSE "checked"]
    /\ UNCHANGED <<scraping_status, wpc, wdf, widx, warg, persisted, env, obs>>

\* start_scraping, lines 191-210: the arguments are read, the status is rebound and
\* the thread started
StartReset(r) ==
    /\ rpc[r] = "checked"
    /\ rpc' = [rpc EXCEPT ![r] = "started"]
    /\ \E a \in RequestArgs : warg' = [warg EXCEPT ![r] = a]
    /\ wpc' = [wpc EXCEPT ![r] = "start"]
    /\ scraping_status' = ResetStatus
    /\ UNCHANGED <<wdf, widx, persisted, env, obs>>

\* background_scraping_task, lines 54-73: the roster is read, the counters are set
WorkerStart(w) ==
    /\ wpc[w] = "start"
    /\ LET df == Head_(env.roster, warg[w].max_clubs) IN
       /\ wdf' = [wdf EXCEPT ![w] = df]
       /\ scraping_status' = [scraping_status EXCEPT !.total = Len(df),
                                                     !.results = <<>>, !.errors = <<>>]
       /\ obs' = [obs EXCEPT ![w].static = [i \in 1..Len(df) |-> 0],
                             ![w].js = [i \in 1..Len(df) |-> 0]]
    /\ widx' = [widx EXCEPT ![w] = 1]
    /\ wpc' = [wpc EXCEPT ![w] = "loop"]
    /\ UNCHANGED <<rpc, warg, persisted, env>>

\* pd.read_excel raises (the roster is unreadable): the except clause of lines 141-143
WorkerStartFails(w) ==
    /\ wpc[w] = "start"
    /\ ClearRunning([scraping_status EXCEPT !.errors = Append(@, "Fatal error")], w)
    /\ UNCHANGED <<rpc, warg, persisted, env>>

\* The for statement finds no further row (line 76)
WorkerLoopEnd(w) ==
    /\ wpc[w] = "loop" /\ widx[w] > Len(wdf[w])
    /\ wpc' = [wpc EXCEPT ![w] = "save"]
    /\ UNCHANGED <<scraping_status, rpc, wdf, widx, warg, persisted, env, obs>>

\* The stop check of lines 77-78 finds the flag cleared
WorkerBreak(w) ==
    /\ wpc[w] = "loop" /\ widx[w] <= Len(wdf[w])
    /\ ~scraping_status.running
    /\ wpc' = [wpc EXCEPT ![w] = "save"]
    /\ UNCHANGED <<scraping_status, rpc, wdf, widx, warg, persisted, env, obs>>

\* Lines 77-88 for a row with a website: the club is announced and scrape_club called
WorkerFetch(w) ==
    /\ wpc[w] = "loop" /\ widx[w] <= Len(wdf[w])
    /\ scraping_status.running
    /\ LET row == wdf[w][widx[w]] IN
       /\ ~WebsiteRaises(row.website) /\ HasWebsite(row.website)
       /\ scraping_status' = [scraping_status EXCEPT !.current_club = row.name,
                                                     !.progress = widx[w]]
    /\ wpc' = [wpc EXCEPT ![w] = "scraping"]
    /\ UNCHANGED <<rpc, wdf, widx, warg, persisted, env, obs>>

\* scrape_club returns its record (lines 88-89); the scraper is the HybridScraper
\* when use_js_fallback was asked and Playwright is installed (lines 67-73)
WorkerScraped(w) ==
    /\ wpc[w] = "scraping"
    /\ env.site.fetch # ScrapeRaises
    /\ LET row == wdf[w][widx[w]]
           existing == Existing(merged_data, row.name, row.website)
           hybrid == warg[w].use_js_fallback /\ env.site.playwright
           f == env.site.fetch
           static == SimpleScrapeClub(existing, row.website, row.name, f.outcome, f.page)
           retry == should_retry_with_js(hybrid, static)
           j == IF retry THEN env.site.js ELSE JsNotCalled
           result == HybridScrapeClub(hybrid, existing, row.website, row.name,
                                      f.outcome, f.page, j.outcome, j.page)
       IN /\ scraping_status' = [scraping_status EXCEPT !.results = Append(@, result)]
          /\ merged_data' = TableAfterRead(merged_data, sameObj, row.name, row.website, result)
          /\ obs' = [obs EXCEPT ![w].static[widx[w]] = @ + 1,
                                ![w].js[widx[w]] = IF retry THEN @ + 1 ELSE @]
    /\ widx' = [widx EXCEPT ![w] = @ + 1]
    /\ wpc' = [wpc EXCEPT ![w] = "loop"]
    /\ UNCHANGED <<rpc, wdf, warg, persisted, env>>

\* scrape_club raises (lines 90-93)
WorkerScrapeRaises(w) ==
    /\ wpc[w] = "scraping"
    /\ env.site.fetch = ScrapeRaises
    /\ scraping_status' = [scraping_status EXCEPT !.errors = Append(@, "Error scraping")]
    /\ widx' = [widx EXCEPT ![w] = @ + 1]
    /\ wpc' = [wpc EXCEPT ![w] = "loop"]
    /\ UNCHANGED <<rpc, wdf, warg, persisted, env, obs>>

\* Lines 77-86 and 94-125 for a row without website
WorkerNoWebsite(w) ==
    /\ wpc[w] = "loop" /\ widx[w] <= Len(wdf[w])
    /\ scraping_status.running
    /\ LET row == wdf[w][widx[w]]
           result == NoWebsiteRecord(Existing(merged_data, row.name, ""), row.name)
       IN
       /\ ~WebsiteRaises(row.website) /\ ~HasWebsite(row.website)
       /\ scraping_status' =
            [scraping_status EXCEPT
                !.current_club = row.name, !.progress = widx[w],
                !.results = Append(@, result)]
       /\ merged_data' = TableAfterRead(merged_data, sameObj, row.name, "", result)
    /\ widx' = [widx EXCEPT ![w] = @ + 1]
    /\ UNCHANGED <<rpc, wpc, wdf, warg, persisted, env, obs>>

\* Lines 77-86 for a row whose Website cell is not a string: website.strip() raises
\* and the except clause of lines 141-143 ends the task
WorkerBadCell(w) ==
    /\ wpc[w] = "loop" /\ widx[w] <= Len(wdf[w])
    /\ scraping_status.running
    /\ LET row == wdf[w][widx[w]] IN
       /\ WebsiteRaises(row.website)
       /\ ClearRunning([scraping_status EXCEPT !.current_club = row.name,
                                               !.progress = widx[w],
                                               !.errors = Append(@, "Fatal error")], w)
    /\ UNCHANGED <<rpc, warg, persisted, env>>

\* Lines 127-139: the results are written, if there are any, and the flag cleared
WorkerSave(w) ==
    /\ wpc[w] = "save"
    /\ persisted' = IF scraping_status.results # <<>> THEN scraping_status.results
                    ELSE persisted
    /\ ClearRunning(scraping_status, w)
    /\ UNCHANGED <<rpc, warg, env>>

\* (writing the files raises and no except clause clears the flag: the thread ends)
WorkerSaveDies(w) ==
    /\ wpc[w] = "save" /\ scraping_status.results # <<>>
    /\ wpc' = [wpc EXCEPT ![w] = "done"]
    /\ wdf' = [wdf EXCEPT ![w] = <<>>]
    /\ widx' = [widx EXCEPT ![w] = 0]
    /\ UNCHANGED <<scraping_status, obs, rpc, warg, persisted, env>>

\* Writing the files raises (lines 131-137): the except clause of lines 141-143
WorkerSaveFails(w) ==
    /\ wpc[w] = "save" /\ scraping_status.results # <<>>
    /\ ClearRunning([scraping_status EXCEPT !.errors = Append(@, "Fatal error")], w)
    /\ UNCHANGED <<rpc, warg, persisted, env>>

\* ---- get_existing_data called on the table build_lookup_dict has built ----
LookupNames == {"ABC  Tennis   Club", "abc tc", "Bay TC", "Tennis Club", "River Club"}
LookupUrls == {"https://www.Abc.ca/", "abc.ca", "http://bay.ca", ""}

\* A call of DataMerger.get_existing_data (data_merger.py lines 169-181): its
\* arguments and the entry it returned
Lookup ==
    /\ mphase = "done" /\ call = NoCall
    /\ \E n \in LookupNames, u \in LookupUrls :
         call' = [op |-> "lookup", club_name |-> n, website |-> u,
                  key |-> get_existing_key(merged_data, n, u),
                  result |-> Existing(merged_data, n, u)]
    /\ UNCHANGED mergerVars

\* ---- the normalizers called on two names, on two URLs ----
\* normalize_name(a), normalize_name(b) are called and return
NormalizeNames ==
    /\ call = NoCall
    /\ \E a \in DrawnNames, b \in DrawnNames :
         call' = [op |-> "normalize_name", a |-> a, b |-> b,
                  key_a |-> normalize_name_str(a.chars),
                  key_b |-> normalize_name_str(b.chars)]

\* normalize_url(a), normalize_url(b) are called and return
NormalizeUrls ==
    /\ call = NoCall
    /\ \E a \in DrawnUrls, b \in DrawnUrls :
         call' = [op |-> "normalize_url", a |-> a, b |-> b,
                  key_a |-> normalize_url_str(a.chars),
                  key_b |-> normalize_url_str(b.chars)]

(***************************************************************************)
(* email_agent.py and the outreach routes of app.py                        *)
(* One outreach operation at a time: the command-line run                  *)
(* (main.py --email -> EmailAgent.send_outreach_emails), POST              *)
(* /api/email-preview, or POST /api/send-emails.                           *)
(***************************************************************************)
MaxClubs == 2              \* records in the list an outreach operation reads

Placeholder == "Contact form available"   \* scraper_simple.py line 132
OutreachThreshold == 3                    \* email_agent.py line 70

\* important_fields, email_agent.py lines 85-89
important_fields == <<"Location", "Email", "Club Type", "Membership Status",
                      "Current Waitlist Length", "Number of Courts",
                      "Court Surface", "Operating Season">>

\* dict.get(key): None when the key is absent
GetOrNone(d, k) == IF k \in DOMAIN d THEN d[k] ELSE "<None>"

\* missing_fields, email_agent.py lines 91-92
missing_fields_of(club) ==
    SelectSeq(important_fields, LAMBDA f : GetOrNone(club, f) = NA)

\* the test of email_agent.py line 95 that ignores the Email
needs_outreach_by_count(club) == Len(missing_fields_of(club)) >= OutreachThreshold

\* email_agent.py line 95
needs_outreach(club) ==
    GetOrNone(club, "Email") = NA \/ Len(missing_fields_of(club)) >= OutreachThreshold

\* identify_clubs_with_missing_data, email_agent.py lines 69-102
identify_clubs_with_missing_data(clubs) ==
    LET picked == SelectSeq(clubs, needs_outreach) IN
    [i \in 1..Len(picked) |-> [club |-> picked[i], missing_fields |-> missing_fields_of(picked[i])]]

\* the route's filter, app.py lines 242-245 and 280-283 (a Python string is truthy
\* unless empty)
to_contact(result) ==
    /\ GetOrNone(result, "Email") # NA
    /\ GetOrNone(result, "Email") \notin {"", "<None>"}
    /\ \/ GetOrNone(result, "Waitlist Length") = NA
       \/ GetOrNone(result, "Membership Status") = NA
clubs_to_contact(results) == SelectSeq(results, to_contact)

\* send_outreach_emails sends whatever dry_run says
sends_ignoring_dry_run(dry_run, club) == GetOrNone(club, "Email") # NA
\* send_outreach_emails, lines 169 and 180: send_email is called for this club
calls_send_email(dry_run, club) == ~dry_run /\ GetOrNone(club, "Email") # NA

\* a record is logged as sent whatever send_email returned
log_sent_always(success) == [sent |-> TRUE, timestamp |-> "time"]
\* email_agent.py lines 165-166 and 184-186: the sent and timestamp of the log record
log_outcome(success) ==
    IF success THEN [sent |-> TRUE, timestamp |-> "time"]
    ELSE [sent |-> FALSE, timestamp |-> "null"]

\* ---- the inputs drawn ----
OutreachEmails == {NA, "", Placeholder, "info@club.ca"}
\* the fields of a record that are 'N/A': none, the waitlist length, the location,
\* or three of them
MissingProfiles == {{}, {"Waitlist"}, {"Location"}, {"Waitlist", "Number of Courts", "Court Surface"}}
OutreachNames == <<"River Club", "Bay TC", "abc tc", "Tennis Club">>

\* a record in the format of scraper.py (lines 198-210)
CliRecord(name, email, missing) ==
    [k \in {"Club Name", "Location", "Email", "Club Type", "Membership Status",
            "Current Waitlist Length", "Number of Courts", "Court Surface",
            "Operating Season", "Website URL", "Scrape Status"} |->
        CASE k = "Club Name" -> name
          [] k = "Email" -> email
          [] k = "Website URL" -> "http://bay.ca"
          [] k = "Scrape Status" -> "Success"
          [] k = "Current Waitlist Length" -> IF "Waitlist" \in missing THEN NA ELSE "25"
          [] OTHER -> IF k \in missing THEN NA ELSE "known"]
\* a record in the format of scraper_simple.py (lines 288-300)
DashRecord(name, email, missing) ==
    [k \in RecordKeys |->
        CASE k = "Club Name" -> name
          [] k = "Email" -> email
          [] k = "Website" -> "http://bay.ca"
          [] k = "Scrape Status" -> "Success"
          [] k = "Waitlist Length" -> IF "Waitlist" \in missing THEN NA ELSE "25"
          [] OTHER -> IF k \in missing THEN NA ELSE "known"]

Shapes == {[email |-> e, missing |-> m] : e \in OutreachEmails, m \in MissingProfiles}
\* the lists of at most MaxClubs records, as sequences of shapes
ShapeLists == UNION {[1..n -> Shapes] : n \in 0..MaxClubs}
CliList(sh) == [i \in 1..Len(sh) |-> CliRecord(OutreachNames[i], sh[i].email, sh[i].missing)]
DashList(sh) == [i \in 1..Len(sh) |-> DashRecord(OutreachNames[i], sh[i].email, sh[i].missing)]

MailIdle == [op |-> "none", pc |-> "idle", clubs |-> <<>>, dry_run |-> TRUE, creds |-> FALSE,
             todo |-> <<>>, i |-> 0, generated |-> <<>>, smtp |-> <<>>, log |-> <<>>,
             sent_count |-> 0, failed_count |-> 0, response |-> "none"]

\* main.py --email [--dry-run]: send_outreach_emails up to its loop (lines 148-150)
OutreachStart ==
    /\ mail = MailIdle
    /\ \E sh \in ShapeLists, d \in BOOLEAN, c \in BOOLEAN :
         mail' = [MailIdle EXCEPT !.op = "cli", !.pc = "loop", !.clubs = CliList(sh),
                                  !.dry_run = d, !.creds = c, !.i = 1,
                                  !.todo = identify_clubs_with_missing_data(CliList(sh))]

\* One turn of the loop of send_outreach_emails (lines 152-193).  send_email
\* (lines 104-134) returns False without credentials (nothing is transmitted) and
\* True or False as the transmission went.
OutreachItem ==
    /\ mail.op = "cli" /\ mail.pc = "loop" /\ mail.i <= Len(mail.todo)
    /\ LET item == mail.todo[mail.i]
           club == item.club
           email_record == [club_name |-> club["Club Name"], email |-> Get(club, "Email"),
                            missing_fields |-> item.missing_fields,
                            sent |-> FALSE, timestamp |-> "null"]
       IN IF calls_send_email(mail.dry_run, club)
          THEN \E success \in (IF mail.creds THEN BOOLEAN ELSE {FALSE}) :
                 mail' = [mail EXCEPT
                    !.generated = Append(@, club),
                    !.smtp = Append(@, [to |-> club["Email"], transmitted |-> mail.creds,
                                        success |-> success]),
                    !.log = Append(@, [email_record EXCEPT
                                          !.sent = log_outcome(success).sent,
                                          !.timestamp = log_outcome(success).timestamp]),
                    !.i = @ + 1]
          ELSE mail' = [mail EXCEPT !.generated = Append(@, club),
                                    !.log = Append(@, email_record), !.i = @ + 1]

\* send_outreach_emails, lines 195-212: the log is written and the summary printed
OutreachEnd ==
    /\ mail.op = "cli" /\ mail.pc = "loop" /\ mail.i > Len(mail.todo)
    /\ mail' = [mail EXCEPT !.pc = "done", !.response = "log saved",
                            !.sent_count = Len(SelectSeq(mail.log, LAMBDA e : e.sent))]

\* preview_emails, app.py lines 232-267: EmailAgent has no generate_email, so the
\* first club to contact raises AttributeError and the route answers 500
PreviewRoute ==
    /\ mail = MailIdle
    /\ \E sh \in ShapeLists :
         LET contact == clubs_to_contact(DashList(sh)) IN
         mail' = [MailIdle EXCEPT !.op = "preview", !.pc = "done", !.clubs = DashList(sh),
                                  !.todo = contact,
                                  !.response = IF contact = <<>> THEN "previews"
                                               ELSE "error 500"]

\* send_emails, app.py lines 270-291: the filter and the dry-run answer
SendRouteStart ==
    /\ mail = MailIdle
    /\ \E sh \in ShapeLists, d \in BOOLEAN, c \in BOOLEAN :
         mail' = [MailIdle EXCEPT !.op = "send", !.clubs = DashList(sh), !.dry_run = d,
                                  !.creds = c, !.todo = clubs_to_contact(DashList(sh)),
                                  !.i = 1,
                                  !.pc = IF d THEN "done" ELSE "loop",
                                  !.response = IF d THEN "Dry run completed" ELSE "none"]

\* send_emails, app.py lines 298-305: email_agent.generate_email raises
\* AttributeError (EmailAgent has no such method), which the except clause counts
SendRouteItem ==
    /\ mail.op = "send" /\ mail.pc = "loop" /\ mail.i <= Len(mail.todo)
    /\ mail' = [mail EXCEPT !.failed_count = @ + 1, !.i = @ + 1]

\* send_emails, app.py lines 307-312
SendRouteEnd ==
    /\ mail.op = "send" /\ mail.pc = "loop" /\ mail.i > Len(mail.todo)
    /\ mail' = [mail EXCEPT !.pc = "done", !.response = "Emails sent"]

(***************************************************************************)
(* The court extractors: scraper_simple.py, scraper_js.py, scraper.py      *)
(***************************************************************************)
\* The words the page texts are made of, spelled out
WordChars(w) ==
    CASE w = "0" -> <<"0">>
      [] w = "6" -> <<"6">>
      [] w = "50" -> <<"5","0">>
      [] w = "51" -> <<"5","1">>
      [] w = "500" -> <<"5","0","0">>
      [] w = "courts" -> <<"c","o","u","r","t","s">>
      [] w = "Courts:" -> <<"C","o","u","r","t","s",":">>
      [] w = "tennis" -> <<"t","e","n","n","i","s">>
      [] w = "six" -> <<"s","i","x">>
      [] w = "4-court" -> <<"4","-","c","o","u","r","t">>
      [] w = "with" -> <<"w","i","t","h">>
      [] w = "indoor" -> <<"i","n","d","o","o","r">>
      [] w = "Outdoor" -> <<"O","u","t","d","o","o","r">>
      [] w = "dome" -> <<"d","o","m","e">>
      [] w = "open-air" -> <<"o","p","e","n","-","a","i","r">>
      [] w = "clay" -> <<"c","l","a","y">>
      [] w = "semidome" -> <<"s","e","m","i","d","o","m","e">>
      [] w = "Accepting" -> <<"A","c","c","e","p","t","i","n","g">>
      [] w = "new" -> <<"n","e","w">>
      [] w = "members" -> <<"m","e","m","b","e","r","s">>
      [] w = "membership" -> <<"m","e","m","b","e","r","s","h","i","p">>
      [] w = "open" -> <<"o","p","e","n">>
      [] w = "waitlist" -> <<"w","a","i","t","l","i","s","t">>
      [] w = "Waiting" -> <<"W","a","i","t","i","n","g">>
      [] w = "wait" -> <<"w","a","i","t">>
      [] w = "list" -> <<"l","i","s","t">>
      [] w = "not" -> <<"n","o","t">>
      [] w = "closed" -> <<"c","l","o","s","e","d">>
      [] w = "available" -> <<"a","v","a","i","l","a","b","l","e">>
      [] w = "join" -> <<"j","o","i","n">>
      [] w = "Mail" -> <<"M","a","i","l">>
      [] w = "noreply@club.ca" -> <<"n","o","r","e","p","l","y","@","c","l","u","b",".","c","a">>
      [] w = "user@example.com" -> <<"u","s","e","r","@","e","x","a","m","p","l","e",".","c","o","m">>
      [] w = "info@club.ca" -> <<"i","n","f","o","@","c","l","u","b",".","c","a">>
      [] w = "bob@club.ca" -> <<"b","o","b","@","c","l","u","b",".","c","a">>
      [] w = "info AT club DOT ca" -> <<"i","n","f","o"," ","A","T"," ","c","l","u","b"," ","D","O","T"," ","c","a">>
      [] w = "Waterloo.ca" -> <<"W","a","t","e","r","l","o","o",".","c","a">>

\* the text of words separated by one blank (get_text(separator=' ', strip=True))
RECURSIVE JoinWords(_)
JoinWords(ws) ==
    IF ws = <<>> THEN <<>>
    ELSE IF Len(ws) = 1 THEN WordChars(ws[1])
    ELSE WordChars(ws[1]) \o <<" ">> \o JoinWords(Tail(ws))

DigitChars == <<"0","1","2","3","4","5","6","7","8","9">>
IsDigit(c) == \E d \in 1..Len(DigitChars) : DigitChars[d] = c
DigitVal(c) == (CHOOSE d \in 1..Len(DigitChars) : DigitChars[d] = c) - 1
\* int(digits)
RECURSIVE IntOf(_)
IntOf(ds) ==
    IF ds = <<>> THEN 0
    ELSE 10 * IntOf(SubSeq(ds, 1, Len(ds) - 1)) + DigitVal(ds[Len(ds)])
\* str(count), count >= 0
RECURSIVE StrOf(_)
StrOf(n) ==
    IF n < 10 THEN <<DigitChars[n + 1]>>
    ELSE Append(StrOf(n \div 10), DigitChars[(n % 10) + 1])

NAChars == <<"N","/","A">>

\* \w of the regular expressions, on the characters of the words above
IsWordCh(c) == c \notin {" ", "-", ":", ",", ".", ")", "/", "@", "?", "|", "%", "+"}
\* \b before position i
BoundaryBefore(s, i) == i = 1 \/ ~IsWordCh(s[i - 1])

\* (\d+): the position after the digits that start at i
RECURSIVE RunEnd(_, _)
RunEnd(s, i) == IF i <= Len(s) /\ IsDigit(s[i]) THEN RunEnd(s, i + 1) ELSE i
\* the positions where (\d+) can begin a leftmost match: the first digit of a run
RunStarts(s) == {i \in 1..Len(s) : IsDigit(s[i]) /\ (i = 1 \/ ~IsDigit(s[i - 1]))}
\* \s* and \s+: the position after the blanks that start at i
RECURSIVE WsEnd(_, _)
WsEnd(s, i) == IF i <= Len(s) /\ IsWs(s[i]) THEN WsEnd(s, i + 1) ELSE i
\* [:\s]+ : the position after the colons and blanks that start at i
RECURSIVE SepEnd(_, _)
SepEnd(s, i) == IF i <= Len(s) /\ (IsWs(s[i]) \/ s[i] = ":") THEN SepEnd(s, i + 1) ELSE i
\* the position where the blanks that end before i begin
RECURSIVE WsBegin(_, _)
WsBegin(s, i) == IF i > 1 /\ IsWs(s[i - 1]) THEN WsBegin(s, i - 1) ELSE i

CourtW == <<"c","o","u","r","t">>
TennisLW == <<"t","e","n","n","i","s">>
IndoorW == <<"i","n","d","o","o","r">>
OutdoorW == <<"o","u","t","d","o","o","r">>

\* \s+courts? at position e
WsCourt(s, e) == WsEnd(s, e) > e /\ StartsWithAt(s, WsEnd(s, e), CourtW)
\* \s+(?:tennis\s+)?court at position e; the position after 'court', 0 without match
AfterTennisCourt(s, e) ==
    LET w == WsEnd(s, e)
        t == WsEnd(s, w + Len(TennisLW))
    IN IF w = e THEN 0
       ELSE IF StartsWithAt(s, w, TennisLW) /\ t > w + Len(TennisLW)
               /\ StartsWithAt(s, t, CourtW)
       THEN t + Len(CourtW)
       ELSE IF StartsWithAt(s, w, CourtW) THEN w + Len(CourtW)
       ELSE 0
\* (?:\s|,|\.|\)|$) at position q
Terminated(s, q) == q > Len(s) \/ s[q] \in {" ", ",", ".", ")"}
\* the words, each followed by \s+, end right before position i
RECURSIVE PrecededBy(_, _, _)
PrecededBy(s, i, words) ==
    IF words = <<>> THEN TRUE
    ELSE LET w == words[Len(words)]
             b == WsBegin(s, i)
         IN /\ b < i /\ b - Len(w) >= 1
            /\ StartsWithAt(s, b - Len(w), w)
            /\ PrecededBy(s, b - Len(w), SubSeq(words, 1, Len(words) - 1))

\* ---- the rules of extract_courts_count, scraper_simple.py lines 194-205; each
\* ---- tells whether the rule matches with its (\d+) at the digits that start at i
\* (\d+)\s+(?:tennis\s+)?courts?(?:\s|,|\.|\)|$)
Rule1(s, i) ==
    LET q == AfterTennisCourt(s, RunEnd(s, i)) IN
    q # 0 /\ (Terminated(s, q) \/ (q <= Len(s) /\ s[q] = "s" /\ Terminated(s, q + 1)))
\* total\s+(?:of\s+)?(\d+)\s+courts?
Rule3(s, i) ==
    /\ WsCourt(s, RunEnd(s, i))
    /\ \/ PrecededBy(s, i, << <<"t","o","t","a","l">> >>)
       \/ PrecededBy(s, i, << <<"t","o","t","a","l">>, <<"o","f">> >>)
\* we\s+have\s+(\d+)\s+courts?
Rule4(s, i) ==
    WsCourt(s, RunEnd(s, i)) /\ PrecededBy(s, i, << <<"w","e">>, <<"h","a","v","e">> >>)
\* featuring\s+(\d+)\s+courts?
Rule5(s, i) ==
    WsCourt(s, RunEnd(s, i))
    /\ PrecededBy(s, i, << <<"f","e","a","t","u","r","i","n","g">> >>)
\* (\d+)\s+(?:indoor|outdoor)\s+courts?
Rule6(s, i) ==
    LET w == WsEnd(s, RunEnd(s, i)) IN
    /\ w > RunEnd(s, i)
    /\ \/ StartsWithAt(s, w, IndoorW) /\ WsCourt(s, w + Len(IndoorW))
       \/ StartsWithAt(s, w, OutdoorW) /\ WsCourt(s, w + Len(OutdoorW))
\* club\s+has\s+(\d+)\s+courts?
Rule7(s, i) ==
    WsCourt(s, RunEnd(s, i)) /\ PrecededBy(s, i, << <<"c","l","u","b">>, <<"h","a","s">> >>)
\* facilities\s+include\s+(\d+)\s+courts?
Rule8(s, i) ==
    WsCourt(s, RunEnd(s, i))
    /\ PrecededBy(s, i, << <<"f","a","c","i","l","i","t","i","e","s">>,
                           <<"i","n","c","l","u","d","e">> >>)
\* (\d+)[-\s]court
Rule9(s, i) ==
    LET e == RunEnd(s, i) IN
    e <= Len(s) /\ (s[e] = "-" \/ IsWs(s[e])) /\ StartsWithAt(s, e + 1, CourtW)
\* with\s+(\d+)\s+courts?
Rule10(s, i) ==
    WsCourt(s, RunEnd(s, i)) /\ PrecededBy(s, i, << <<"w","i","t","h">> >>)
\* (\d+)\s+(?:tennis\s+)?courts?  (scraper_simple.py line 187, scraper_js.py line 170)
RuleNumCourts(s, i) == AfterTennisCourt(s, RunEnd(s, i)) # 0

\* courts?[:\s]+(\d+): the digits that start at i follow 'court' or 'courts' and
\* at least one colon or blank
Rule2(s, i) ==
    \E p \in 1..Len(s) :
        /\ StartsWithAt(s, p, CourtW)
        /\ LET q == IF p + Len(CourtW) <= Len(s) /\ s[p + Len(CourtW)] = "s"
                    THEN p + Len(CourtW) + 1 ELSE p + Len(CourtW)
           IN SepEnd(s, q) > q /\ SepEnd(s, q) = i

\* the number of the digits that start at i
NumberAt(s, i) == IntOf(SubSeq(s, i, RunEnd(s, i) - 1))

\* the sanity check "1 <= count <= 50"
MinCourts == 1
MaxCourts == 50
InRange(count) == MinCourts <= count /\ count <= MaxCourts

\* re.finditer(pattern, text) for the rule numbered r (0: the rule of line 187):
\* where the digits of its matches start
Matches(s, r) ==
    {i \in RunStarts(s) :
        CASE r = 0 -> RuleNumCourts(s, i)
          [] r = 1 -> Rule1(s, i)
          [] r = 2 -> Rule2(s, i)
          [] r = 3 -> Rule3(s, i)
          [] r = 4 -> Rule4(s, i)
          [] r = 5 -> Rule5(s, i)
          [] r = 6 -> Rule6(s, i)
          [] r = 7 -> Rule7(s, i)
          [] r = 8 -> Rule8(s, i)
          [] r = 9 -> Rule9(s, i)
          [] r = 10 -> Rule10(s, i)}
\* for match in matches: the first match, from the left, whose count passes the
\* check; 0 when the rule returns nothing
FirstAccepted(s, r) ==
    LET hits == {i \in Matches(s, r) : InRange(NumberAt(s, i))} IN
    IF hits = {} THEN 0 ELSE CHOOSE i \in hits : \A j \in hits : i <= j

\* the loop over the rules: the count of the first rule that returns one
RECURSIVE FirstOfRules(_)
FirstOfRules(firsts) ==
    IF firsts = <<>> THEN 0
    ELSE IF Head(firsts) # 0 THEN Head(firsts)
    ELSE FirstOfRules(Tail(firsts))

\* word_to_num, scraper_simple.py lines 216-219, in the order of the dict
NumberWords ==
    << <<"o","n","e">>, <<"t","w","o">>, <<"t","h","r","e","e">>, <<"f","o","u","r">>,
       <<"f","i","v","e">>, <<"s","i","x">>, <<"s","e","v","e","n">>,
       <<"e","i","g","h","t">>, <<"n","i","n","e">>, <<"t","e","n">> >>
\* \b{word}\s+(?:tennis\s+)?courts? is found in the text
SpelledOut(s, n) ==
    \E p \in 1..Len(s) :
        /\ BoundaryBefore(s, p) /\ StartsWithAt(s, p, NumberWords[n])
        /\ AfterTennisCourt(s, p + Len(NumberWords[n])) # 0

\* TennisClubScraper.extract_courts_count (scraper_simple.py lines 179-223).  fac_text
\* is the text of the facilities section, <<>> when soup.find returns None
extract_courts_count(page_text, fac_text) ==
    LET f == Lower(fac_text)
        s == Lower(page_text)
        facHits == Matches(f, 0)
        facFirst == IF facHits = {} THEN 0 ELSE CHOOSE i \in facHits : \A j \in facHits : i <= j
        first == FirstOfRules([r \in 1..10 |-> FirstAccepted(s, r)])
        words == {n \in 1..Len(NumberWords) : SpelledOut(s, n)}
    IN IF facFirst # 0 /\ InRange(NumberAt(f, facFirst)) THEN StrOf(NumberAt(f, facFirst))
       ELSE IF first # 0 THEN StrOf(NumberAt(s, first))
       ELSE IF words # {} THEN StrOf(CHOOSE n \in words : \A m \in words : n <= m)
       ELSE NAChars

\* JavaScriptScraper._extract_courts (scraper_js.py lines 167-182)
extract_courts_js(text) ==
    LET s == Lower(text)
        first == FirstOfRules(<<FirstAccepted(s, 0), FirstAccepted(s, 2),
                                FirstAccepted(s, 9)>>)
    IN IF first # 0 THEN StrOf(NumberAt(s, first)) ELSE NAChars

\* ---- the rules of extract_court_info, scraper.py lines 153-157
\* (\d+)\s*(?:indoor|outdoor)?\s*courts?
LegacyRule1(s, i) ==
    LET w == WsEnd(s, RunEnd(s, i)) IN
    \/ StartsWithAt(s, w, CourtW)
    \/ StartsWithAt(s, w, IndoorW) /\ StartsWithAt(s, WsEnd(s, w + Len(IndoorW)), CourtW)
    \/ StartsWithAt(s, w, OutdoorW) /\ StartsWithAt(s, WsEnd(s, w + Len(OutdoorW)), CourtW)
\* courts?:\s*(\d+)
LegacyRule2(s, i) ==
    \E p \in 1..Len(s) :
        /\ StartsWithAt(s, p, CourtW)
        /\ LET q == IF p + Len(CourtW) <= Len(s) /\ s[p + Len(CourtW)] = "s"
                    THEN p + Len(CourtW) + 1 ELSE p + Len(CourtW)
           IN q <= Len(s) /\ s[q] = ":" /\ WsEnd(s, q + 1) = i
\* (\d+)\s*tennis\s*courts?
LegacyRule3(s, i) ==
    LET w == WsEnd(s, RunEnd(s, i)) IN
    StartsWithAt(s, w, TennisLW) /\ StartsWithAt(s, WsEnd(s, w + Len(TennisLW)), CourtW)

\* re.search(pattern, text) for the rule numbered r: where the digits of the
\* leftmost match start, 0 without match
FirstMatch(s, r) ==
    LET hits == {i \in RunStarts(s) :
                    CASE r = 1 -> LegacyRule1(s, i)
                      [] r = 2 -> LegacyRule2(s, i)
                      [] r = 3 -> LegacyRule3(s, i)}
    IN IF hits = {} THEN 0 ELSE CHOOSE i \in hits : \A j \in hits : i <= j

\* The court count of TennisClubScraper.extract_court_info (scraper.py lines 147-163):
\* match.group(1) of the first rule that matches
extract_court_info(page_text) ==
    LET s == Lower(page_text)
        first == FirstOfRules([r \in 1..3 |-> FirstMatch(s, r)])
    IN IF first # 0 THEN SubSeq(s, first, RunEnd(s, first) - 1) ELSE NAChars

\* ---- extract_court_surface, scraper_simple.py lines 225-257
\* \b w1 \s* w2 is found in the text
Phrase(s, w1, w2) ==
    \E p \in 1..Len(s) :
        /\ BoundaryBefore(s, p) /\ StartsWithAt(s, p, w1)
        /\ StartsWithAt(s, WsEnd(s, p + Len(w1)), w2)
\* \b w is found in the text
WordStart(s, w) == \E p \in 1..Len(s) : BoundaryBefore(s, p) /\ StartsWithAt(s, p, w)
\* \b w1 [-\s] w2 is found in the text
Hyphened(s, w1, w2) ==
    \E p \in 1..Len(s) :
        /\ BoundaryBefore(s, p) /\ StartsWithAt(s, p, w1)
        /\ p + Len(w1) <= Len(s)
        /\ (s[p + Len(w1)] = "-" \/ IsWs(s[p + Len(w1)]))
        /\ StartsWithAt(s, p + Len(w1) + 1, w2)

HardLW == <<"h","a","r","d">>
ClayLW == <<"c","l","a","y">>
GrassLW == <<"g","r","a","s","s">>
\* line 232
HardPhrase(s) ==
    \/ Phrase(s, HardLW, CourtW) \/ WordStart(s, HardLW \o CourtW)
    \/ Hyphened(s, HardLW, <<"s","u","r","f","a","c","e">>)
    \/ WordStart(s, <<"a","s","p","h","a","l","t">>)
    \/ Phrase(s, <<"c","o","n","c","r","e","t","e">>, CourtW)
\* line 236
ClayPhrase(s) ==
    \/ Phrase(s, ClayLW, CourtW) \/ Phrase(s, <<"r","e","d">>, ClayLW)
    \/ WordStart(s, <<"h","a","r","-","t","r","u">>)
    \/ Phrase(s, <<"g","r","e","e","n">>, ClayLW)
\* line 240
GrassPhrase(s) == Phrase(s, GrassLW, CourtW) \/ Phrase(s, <<"l","a","w","n">>, CourtW)
\* line 244
IndoorPhrase(s) ==
    \/ Phrase(s, IndoorW, CourtW)
    \/ WordStart(s, <<"e","n","c","l","o","s","e","d">>)
    \/ WordStart(s, <<"b","u","b","b","l","e">>)
    \/ WordStart(s, <<"d","o","m","e">>)
\* line 246
OutdoorPhrase(s) ==
    Phrase(s, OutdoorW, CourtW) \/ WordStart(s, <<"o","p","e","n","-","a","i","r">>)
\* line 251
SyntheticPhrase(s) ==
    \/ WordStart(s, <<"s","y","n","t","h","e","t","i","c">>)
    \/ Phrase(s, <<"a","r","t","i","f","i","c","i","a","l">>, GrassLW)
    \/ Phrase(s, <<"t","u","r","f">>, CourtW)

\* (surfaces_found when 'Outdoor' is appended whatever was found before)
surfaces_found_unguarded(page_text) ==
    LET s == Lower(page_text) IN
    (IF HardPhrase(s) THEN {"Hard"} ELSE {}) \cup (IF ClayPhrase(s) THEN {"Clay"} ELSE {})
    \cup (IF GrassPhrase(s) THEN {"Grass"} ELSE {})
    \cup (IF IndoorPhrase(s) THEN {"Indoor"} ELSE {})
    \cup (IF OutdoorPhrase(s) THEN {"Outdoor"} ELSE {})
    \cup (IF SyntheticPhrase(s) THEN {"Synthetic"} ELSE {})
\* set(surfaces_found) at line 255: the names appended at lines 230-252
surfaces_found(page_text) ==
    LET s == Lower(page_text) IN
    (IF HardPhrase(s) THEN {"Hard"} ELSE {}) \cup (IF ClayPhrase(s) THEN {"Clay"} ELSE {})
    \cup (IF GrassPhrase(s) THEN {"Grass"} ELSE {})
    \cup (IF IndoorPhrase(s) THEN {"Indoor"} ELSE {})
    \cup (IF OutdoorPhrase(s) /\ ~IndoorPhrase(s) THEN {"Outdoor"} ELSE {})
    \cup (IF SyntheticPhrase(s) THEN {"Synthetic"} ELSE {})

SurfaceChars(n) ==
    CASE n = "Hard" -> <<"H","a","r","d">>
      [] n = "Clay" -> <<"C","l","a","y">>
      [] n = "Grass" -> <<"G","r","a","s","s">>
      [] n = "Indoor" -> <<"I","n","d","o","o","r">>
      [] n = "Outdoor" -> <<"O","u","t","d","o","o","r">>
      [] n = "Synthetic" -> <<"S","y","n","t","h","e","t","i","c">>

\* ', '.join(names)
RECURSIVE JoinSurfaces(_)
JoinSurfaces(names) ==
    IF names = <<>> THEN <<>>
    ELSE IF Len(names) = 1 THEN SurfaceChars(names[1])
    ELSE SurfaceChars(names[1]) \o <<",", " ">> \o JoinSurfaces(Tail(names))

\* the orders in which a set of strings can be iterated
Orders(S) ==
    {o \in [1..Cardinality(S) -> S] : \A x \in S : \E i \in 1..Cardinality(S) : o[i] = x}

\* TennisClubScraper.extract_court_surface: the values it can return for the text
\* (the set is joined in the order the interpreter iterates it)
extract_court_surface(page_text) ==
    LET found == surfaces_found(page_text) IN
    IF found = {} THEN {NAChars} ELSE {JoinSurfaces(o) : o \in Orders(found)}

\* ---- the page texts drawn ----
MaxCourtWords == 3
MaxSurfaceWords == 4
CourtWords == {"0", "6", "50", "51", "500", "courts", "Courts:", "tennis", "six",
               "4-court", "with"}
SurfaceWords == {"indoor", "Outdoor", "courts", "dome", "open-air", "clay", "semidome",
                 "tennis"}
TextsOf(words, n) == UNION {[1..k -> words] : k \in 0..n}

\* extract_courts_count(page_text, soup) is called and returns; the facilities
\* section, when the page has one, holds the first fac words of the text
CourtsStaticCall ==
    /\ call = NoCall
    /\ \E ws \in TextsOf(CourtWords, MaxCourtWords) : \E fac \in 0..Len(ws) :
         call' = [op |-> "extract_courts_count", text |-> JoinWords(ws),
                  fac_text |-> JoinWords(SubSeq(ws, 1, fac)),
                  result |-> extract_courts_count(JoinWords(ws),
                                                  JoinWords(SubSeq(ws, 1, fac)))]

\* _extract_courts(text) is called and returns
CourtsJsCall ==
    /\ call = NoCall
    /\ \E ws \in TextsOf(CourtWords, MaxCourtWords) :
         call' = [op |-> "_extract_courts", text |-> JoinWords(ws),
                  result |-> extract_courts_js(JoinWords(ws))]

\* extract_court_info(page_text, soup) is called and returns; result is num_courts
CourtsLegacyCall ==
    /\ call = NoCall
    /\ \E ws \in TextsOf(CourtWords, MaxCourtWords) :
         call' = [op |-> "extract_court_info", text |-> JoinWords(ws),
                  result |-> extract_court_info(JoinWords(ws))]

\* extract_court_surface(page_text) is called and returns
SurfaceCall ==
    /\ call = NoCall
    /\ \E ws \in TextsOf(SurfaceWords, MaxSurfaceWords) :
         \E v \in extract_court_surface(JoinWords(ws)) :
            call' = [op |-> "extract_court_surface", text |-> JoinWords(ws), result |-> v]

(***************************************************************************)
(* The membership-status extractors: scraper_simple.py, scraper_js.py,     *)
(* scraper.py                                                              *)
(***************************************************************************)
\* w1 \s+ w2 is found in the text
Spaced(s, w1, w2) ==
    \E p \in 1..Len(s) :
        /\ StartsWithAt(s, p, w1)
        /\ WsEnd(s, p + Len(w1)) > p + Len(w1)
        /\ StartsWithAt(s, WsEnd(s, p + Len(w1)), w2)
\* w1 \s+ (?:opt \s+)? w2 is found in the text
SpacedOpt(s, w1, opt, w2) ==
    \/ Spaced(s, w1, w2)
    \/ \E p \in 1..Len(s) :
         LET q == WsEnd(s, p + Len(w1))
             r == WsEnd(s, q + Len(opt))
         IN /\ StartsWithAt(s, p, w1) /\ q > p + Len(w1)
            /\ StartsWithAt(s, q, opt) /\ r > q + Len(opt)
            /\ StartsWithAt(s, r, w2)

AcceptingLW == <<"a","c","c","e","p","t","i","n","g">>
OpenLW == <<"o","p","e","n">>
NewLW == <<"n","e","w">>
MembersLW == <<"m","e","m","b","e","r","s">>
MembershipsLW == <<"m","e","m","b","e","r","s","h","i","p","s">>
MembershipLW == <<"m","e","m","b","e","r","s","h","i","p">>
ApplicationsLW == <<"a","p","p","l","i","c","a","t","i","o","n","s">>
WaitlistLW == <<"w","a","i","t","l","i","s","t">>
WaitingLW == <<"w","a","i","t","i","n","g">>
WaitLW == <<"w","a","i","t">>
ListLW == <<"l","i","s","t">>
JoinLW == <<"j","o","i","n">>
OurLW == <<"o","u","r">>
NotLW == <<"n","o","t">>
IsLW == <<"i","s">>
ClosedLW == <<"c","l","o","s","e","d">>
FullLW == <<"f","u","l","l">>
CapacityLW == <<"c","a","p","a","c","i","t","y">>
AvailableLW == <<"a","v","a","i","l","a","b","l","e">>

\* (?:accepting|open)\s+(?:new\s+)?(?:members|memberships|applications)
OpenPhrase(t) ==
    \E w1 \in {AcceptingLW, OpenLW} :
      \E w2 \in {MembersLW, MembershipsLW, ApplicationsLW} : SpacedOpt(t, w1, NewLW, w2)
\* waitlist|waiting\s+list|join\s+(?:our\s+)?wait
WaitlistPhrase(t) ==
    \/ Contains(WaitlistLW, t)
    \/ Spaced(t, WaitingLW, ListLW)
    \/ SpacedOpt(t, JoinLW, OurLW, WaitLW)
\* not\s+accepting|membership\s+(?:is\s+)?closed|full\s+capacity
ClosedPhrase(t) ==
    \/ Spaced(t, NotLW, AcceptingLW)
    \/ SpacedOpt(t, MembershipLW, IsLW, ClosedLW)
    \/ Spaced(t, FullLW, CapacityLW)

\* TennisClubScraper.extract_membership_status (scraper_simple.py)
extract_membership_status(page_text) ==
    LET t == Lower(page_text)
    IN IF OpenPhrase(t) THEN "Open"
       ELSE IF WaitlistPhrase(t) THEN "Waitlist"
       ELSE IF ClosedPhrase(t) THEN "Closed"
       ELSE NA

\* JSScraper._extract_membership (scraper_js.py)
extract_membership_js(text) ==
    LET t == Lower(text)
    IN IF SpacedOpt(t, AcceptingLW, NewLW, MembersLW) \/ Spaced(t, OpenLW, MembershipLW)
       THEN "Open"
       ELSE IF Contains(WaitlistLW, t) \/ Spaced(t, WaitingLW, ListLW) THEN "Waitlist"
       ELSE IF Spaced(t, NotLW, AcceptingLW) \/ Contains(ClosedLW, t) \/ Contains(FullLW, t)
       THEN "Closed"
       ELSE NA

\* TennisClubScraper.extract_membership_status of the first scraper (scraper.py)
extract_membership_legacy(page_text) ==
    LET t == Lower(page_text)
        In(w1, w2) == Contains(w1 \o <<" ">> \o w2, t)
    IN IF Contains(WaitlistLW, t) \/ In(WaitLW, ListLW) \/ In(WaitingLW, ListLW)
       THEN "Waitlist"
       ELSE IF In(AcceptingLW, MembersLW) \/ In(MembershipLW, AvailableLW) THEN "Open"
       ELSE IF In(MembershipLW, ClosedLW) \/ In(NotLW, AcceptingLW) THEN "Closed"
       ELSE NA

MaxMemberWords == 3
MemberWords == {"Accepting", "new", "members", "membership", "open", "waitlist", "Waiting",
                "wait", "list", "not", "closed", "available", "join"}

MembershipStaticCall ==
    /\ call = NoCall
    /\ \E ws \in TextsOf(MemberWords, MaxMemberWords) :
         call' = [op |-> "extract_membership_status", text |-> JoinWords(ws),
                  result |-> extract_membership_status(JoinWords(ws))]

MembershipJsCall ==
    /\ call = NoCall
    /\ \E ws \in TextsOf(MemberWords, MaxMemberWords) :
         call' = [op |-> "_extract_membership", text |-> JoinWords(ws),
                  result |-> extract_membership_js(JoinWords(ws))]

MembershipLegacyCall ==
    /\ call = NoCall
    /\ \E ws \in TextsOf(MemberWords, MaxMemberWords) :
         call' = [op |-> "legacy extract_membership_status", text |-> JoinWords(ws),
                  result |-> extract_membership_legacy(JoinWords(ws))]

(***************************************************************************)
(* The email extractor: scraper_simple.py extract_email                    *)
(***************************************************************************)
IsLetter(c) == \E i \in 1..Len(UpperChars) : UpperChars[i] = c \/ LowerChars[i] = c
IsAlnum(c) == IsLetter(c) \/ IsDigit(c)
\* [A-Za-z0-9._%+-], [A-Za-z0-9.-], [A-Z|a-z]
LocalCh(c) == IsAlnum(c) \/ c \in {".", "_", "%", "+", "-"}
DomCh(c) == IsAlnum(c) \/ c \in {".", "-"}
TldCh(c) == IsLetter(c) \/ c = "|"
\* the position after the characters of a class that start at i
RECURSIVE LocalEnd(_, _)
LocalEnd(s, i) == IF i <= Len(s) /\ LocalCh(s[i]) THEN LocalEnd(s, i + 1) ELSE i
RECURSIVE DomEnd(_, _)
DomEnd(s, i) == IF i <= Len(s) /\ DomCh(s[i]) THEN DomEnd(s, i + 1) ELSE i
RECURSIVE TldEnd(_, _)
TldEnd(s, i) == IF i <= Len(s) /\ TldCh(s[i]) THEN TldEnd(s, i + 1) ELSE i
RECURSIVE WordEnd(_, _)
WordEnd(s, i) == IF i <= Len(s) /\ IsWordCh(s[i]) THEN WordEnd(s, i + 1) ELSE i
\* \b between the characters i-1 and i
WordAt(s, i) == i >= 1 /\ i <= Len(s) /\ IsWordCh(s[i])
BoundaryAt(s, i) == WordAt(s, i - 1) # WordAt(s, i)
SetMax(S) == CHOOSE x \in S : \A y \in S : y <= x

\* email_pattern matched at position p: the position after the match, 0 for no
\* match.  The domain is greedy, so the last dot that a top-level name of two
\* letters or more and a \b follow is taken.
EmailEnd(s, p) ==
    LET a == LocalEnd(s, p) IN
    IF ~(p <= Len(s) /\ BoundaryAt(s, p) /\ a > p /\ a <= Len(s) /\ s[a] = "@") THEN 0
    ELSE LET e == DomEnd(s, a + 1)
             Ends(q) == {t \in (q + 3)..TldEnd(s, q + 1) : BoundaryAt(s, t)}
             Qs == {q \in (a + 2)..(e - 1) : s[q] = "." /\ Ends(q) # {}}
         IN IF Qs = {} THEN 0 ELSE SetMax(Ends(SetMax(Qs)))

\* re.findall(email_pattern, s), from position p on
RECURSIVE FindEmails(_, _)
FindEmails(s, p) ==
    IF p > Len(s) THEN <<>>
    ELSE IF EmailEnd(s, p) > 0
         THEN <<SubSeq(s, p, EmailEnd(s, p) - 1)>> \o FindEmails(s, EmailEnd(s, p))
         ELSE FindEmails(s, p + 1)

\* the filter of the contact section and of the footer, lines 78 and 88
SectionFilter ==
    {<<"e","x","a","m","p","l","e">>,
     <<"t","e","s","t">>,
     <<"n","o","r","e","p","l","y">>}
\* blacklist, lines 96-98
Blacklist ==
    {<<"e","x","a","m","p","l","e",".","c","o","m">>,
     <<"t","e","s","t",".","c","o","m">>,
     <<"p","l","a","c","e","h","o","l","d","e","r">>,
     <<"y","o","u","r","d","o","m","a","i","n">>,
     <<"e","m","a","i","l",".","c","o","m">>,
     <<"s","a","m","p","l","e",".","c","o","m">>,
     <<"d","o","m","a","i","n",".","c","o","m">>,
     <<"s","a","m","p","l","e","e","m","a","i","l">>,
     <<"n","o","r","e","p","l","y">>,
     <<"n","o","-","r","e","p","l","y">>,
     <<"p","r","i","v","a","c","y","@">>,
     <<"l","e","g","a","l","@">>,
     <<"a","b","u","s","e","@">>}
\* priority_keywords, line 101
PriorityKeywords ==
    {<<"i","n","f","o","@">>,
     <<"c","o","n","t","a","c","t","@">>,
     <<"t","e","n","n","i","s","@">>,
     <<"c","l","u","b","@">>,
     <<"a","d","m","i","n","@">>,
     <<"p","r","e","s","i","d","e","n","t","@">>}
ContainsAny(e, ws) == \E x \in ws : Contains(x, Lower(e))

\* (@|AT|at) and (\.|DOT|dot) under re.I at position j: the length matched, 0 for none
AtLen(s, j) ==
    IF StartsWithAt(s, j, <<"@">>) THEN 1
    ELSE IF j + 1 <= Len(s) /\ Lower(SubSeq(s, j, j + 1)) = <<"a","t">> THEN 2
    ELSE 0
DotLen(s, j) ==
    IF StartsWithAt(s, j, <<".">>) THEN 1
    ELSE IF j + 2 <= Len(s) /\ Lower(SubSeq(s, j, j + 2)) = <<"d","o","t">> THEN 3
    ELSE 0
\* the ends m of group 2, begun at k, that a dot and a group 3 follow
ObfG2Ends(s, k) ==
    {m \in (k + 1)..WordEnd(s, k) :
        LET n == WsEnd(s, m) IN
        /\ DotLen(s, n) > 0
        /\ WordEnd(s, WsEnd(s, n + DotLen(s, n))) > WsEnd(s, n + DotLen(s, n))}
\* the ends i of group 1, begun at p, that an at sign and the rest follow
ObfG1Ends(s, p) ==
    {i \in (p + 1)..WordEnd(s, p) :
        LET j == WsEnd(s, i) IN
        /\ AtLen(s, j) > 0
        /\ ObfG2Ends(s, WsEnd(s, j + AtLen(s, j))) # {}}
\* the pattern of line 124 matches at p; the groups are greedy
ObfStarts(s) == {p \in 1..Len(s) : ObfG1Ends(s, p) # {}}
\* f"{group(1)}@{group(2)}.{group(3)}" of the leftmost match
Deobfuscated(s) ==
    LET p == CHOOSE x \in ObfStarts(s) : \A y \in ObfStarts(s) : x <= y
        i == SetMax(ObfG1Ends(s, p))
        j == WsEnd(s, i)
        k == WsEnd(s, j + AtLen(s, j))
        m == SetMax(ObfG2Ends(s, k))
        n == WsEnd(s, m)
        o == WsEnd(s, n + DotLen(s, n))
    IN SubSeq(s, p, i - 1) \o <<"@">> \o SubSeq(s, k, m - 1) \o <<".">>
         \o SubSeq(s, o, WordEnd(s, o) - 1)

\* str.replace(w, '')
RECURSIVE RemoveAll(_, _)
RemoveAll(s, w) ==
    IF s = <<>> THEN <<>>
    ELSE IF StartsWithAt(s, 1, w) THEN RemoveAll(SubSeq(s, Len(w) + 1, Len(s)), w)
    ELSE <<Head(s)>> \o RemoveAll(Tail(s), w)
\* str.split(c)[0]
RECURSIVE SplitHead(_, _)
SplitHead(s, c) ==
    IF s = <<>> \/ Head(s) = c THEN <<>> ELSE <<Head(s)>> \o SplitHead(Tail(s), c)

NoElem == <<"<None>">>       \* soup.find found no such element
MailtoW == <<"m","a","i","l","t","o",":">>
ContactFormChars == <<"C","o","n","t","a","c","t"," ","f","o","r","m"," ","a","v","a","i","l","a","b","l","e">>

\* the addresses of a section's text that pass its filter
SectionEmails(text) ==
    IF text = NoElem THEN <<>>
    ELSE SelectSeq(FindEmails(text, 1), LAMBDA e : ~ContainsAny(e, SectionFilter))
\* the addresses of the page text that pass the blacklist, and those with a priority keyword
PageEmails(page_text) ==
    SelectSeq(FindEmails(page_text, 1), LAMBDA e : ~ContainsAny(e, Blacklist))
PriorityEmails(page_text) ==
    SelectSeq(PageEmails(page_text), LAMBDA e : ContainsAny(e, PriorityKeywords))

\* Strategy 6 returns: the pattern of line 124 is found in the page text
Strategy6(page_text) == ObfStarts(page_text) # {}

\* TennisClubScraper.extract_email(soup, page_text), lines 53-134: the value
\* returned and the strategy that returned it.  soup: the href of the first
\* mailto link, the content of the email meta tag, the text of the contact
\* section and of the footer (NoElem for an element the page has not), and
\* whether a link to a contact page exists.
extract_email(soup, page_text) ==
    LET mail_to == Strip(SplitHead(RemoveAll(soup.mailto, MailtoW), "?"))
        meta == Strip(soup.meta)
    IN IF soup.mailto # NoElem /\ Contains(<<"@">>, mail_to)
       THEN [via |-> 1, value |-> mail_to]
       ELSE IF soup.meta # NoElem /\ soup.meta # <<>> /\ Contains(<<"@">>, meta)
       THEN [via |-> 2, value |-> meta]
       ELSE IF SectionEmails(soup.contact) # <<>>
       THEN [via |-> 3, value |-> Head(SectionEmails(soup.contact))]
       ELSE IF SectionEmails(soup.footer) # <<>>
       THEN [via |-> 4, value |-> Head(SectionEmails(soup.footer))]
       ELSE IF PriorityEmails(page_text) # <<>>
       THEN [via |-> 5, value |-> Head(PriorityEmails(page_text))]
       ELSE IF PageEmails(page_text) # <<>>
       THEN [via |-> 5, value |-> Head(PageEmails(page_text))]
       ELSE IF Strategy6(page_text)
       THEN [via |-> 6, value |-> Deobfuscated(page_text)]
       ELSE IF soup.contact_link
       THEN [via |-> 7, value |-> ContactFormChars]
       ELSE [via |-> 8, value |-> NAChars]

MaxEmailWords == 2
EmailWords == {"Mail", "noreply@club.ca", "user@example.com", "info@club.ca", "bob@club.ca", "info AT club DOT ca", "Waterloo.ca"}
\* the pages drawn: the mailto link, the meta tag, a contact section or a footer
\* that holds the whole text, a link to a contact page
MailtoHrefs == {NoElem, <<"m","a","i","l","t","o",":","b","o","b","@","c","l","u","b",".","c","a","?","s","u","b","j","e","c","t","=","H","i">>,
                <<"m","a","i","l","t","o",":","w","e","b","m","a","s","t","e","r">>}
MetaContents == {NoElem, <<" ","o","f","f","i","c","e","@","c","l","u","b",".","c","a"," ">>}
Soups(text) ==
    [mailto : MailtoHrefs, meta : MetaContents, contact : {NoElem, text},
     footer : {NoElem, text}, contact_link : BOOLEAN]

\* extract_email(soup, page_text) is called and returns
EmailCall ==
    /\ call = NoCall
    /\ \E ws \in TextsOf(EmailWords, MaxEmailWords) : \E soup \in Soups(JoinWords(ws)) :
         LET r == extract_email(soup, JoinWords(ws)) IN
         call' = [op |-> "extract_email", text |-> JoinWords(ws), soup |-> soup,
                  via |-> r.via, result |-> r.value]

(***************************************************************************)
(* Specification of build_lookup_dict, row by row                          *)
(***************************************************************************)
ScrapeIdle == call = NoCall

AppIdle ==
    /\ scraping_status = InitialStatus
    /\ rpc = <<>> /\ wpc = <<>> /\ wdf = <<>> /\ widx = <<>> /\ warg = <<>>
    /\ persisted = <<>> /\ obs = <<>>
    /\ env = [roster |-> <<>>, site |-> <<>>, posts |-> 0]

InitMerger == MergerInit /\ ScrapeIdle /\ AppIdle /\ mail = MailIdle

NextMerger ==
    \/ OtaRow /\ UNCHANGED <<call, mail>> /\ UNCHANGED appVars
    \/ OtaEnd /\ UNCHANGED <<call, mail>> /\ UNCHANGED appVars
    \/ TorontoRow /\ UNCHANGED <<call, mail>> /\ UNCHANGED appVars
    \/ TorontoRowRaises /\ UNCHANGED <<call, mail>> /\ UNCHANGED appVars
    \/ TorontoEnd /\ UNCHANGED <<call, mail>> /\ UNCHANGED appVars
    \/ Lookup /\ UNCHANGED mail /\ UNCHANGED appVars
    \/ CallReturn /\ UNCHANGED mergerVars /\ UNCHANGED mail /\ UNCHANGED appVars

SpecMerger == InitMerger /\ [][NextMerger]_vars

(***************************************************************************)
(* Specification of scrape_club: calls with every input drawn              *)
(***************************************************************************)
MergerIdle ==
    /\ mphase = "done" /\ otaCount = 0 /\ torCount = 0
    /\ merged_data = EmptyTable.md /\ sameObj = EmptyTable.same

InitScrape == call = NoCall /\ MergerIdle /\ AppIdle /\ mail = MailIdle

NextScrape ==
    \/ StaticCall /\ UNCHANGED mergerVars /\ UNCHANGED appVars /\ UNCHANGED mail
    \/ HybridCall /\ UNCHANGED mergerVars /\ UNCHANGED appVars /\ UNCHANGED mail
    \/ CallReturn /\ UNCHANGED mergerVars /\ UNCHANGED appVars /\ UNCHANGED mail

SpecScrape == InitScrape /\ [][NextScrape]_vars

(***************************************************************************)
(* Specification of the dashboard: requests and workers interleaved        *)
(***************************************************************************)
MergerBuilt ==
    /\ mphase = "done" /\ otaCount = 0 /\ torCount = 0
    /\ merged_data = AmendedTable
    /\ sameObj = {{k} : k \in DOMAIN merged_data}

Init == AppInit /\ MergerBuilt /\ ScrapeIdle /\ mail = MailIdle

Next ==
    \/ \E r \in Requests :
        \/ StartCheck(r) /\ UNCHANGED mergerVars /\ UNCHANGED <<call, mail>>
        \/ StartReset(r) /\ UNCHANGED mergerVars /\ UNCHANGED <<call, mail>>
    \/ \E t \in Workers :
        \/ WorkerStart(t) /\ UNCHANGED mergerVars /\ UNCHANGED <<call, mail>>
        \/ WorkerStartFails(t) /\ UNCHANGED mergerVars /\ UNCHANGED <<call, mail>>
        \/ WorkerLoopEnd(t) /\ UNCHANGED mergerVars /\ UNCHANGED <<call, mail>>
        \/ WorkerBreak(t) /\ UNCHANGED mergerVars /\ UNCHANGED <<call, mail>>
        \/ WorkerFetch(t) /\ UNCHANGED mergerVars /\ UNCHANGED <<call, mail>>
        \/ WorkerScraped(t) /\ UNCHANGED <<mphase, otaCount, torCount, sameObj, call, mail>>
        \/ WorkerScrapeRaises(t) /\ UNCHANGED mergerVars /\ UNCHANGED <<call, mail>>
        \/ WorkerNoWebsite(t) /\ UNCHANGED <<mphase, otaCount, torCount, sameObj, call, mail>>
        \/ WorkerBadCell(t) /\ UNCHANGED mergerVars /\ UNCHANGED <<call, mail>>
        \/ WorkerSave(t) /\ UNCHANGED mergerVars /\ UNCHANGED <<call, mail>>
        \/ WorkerSaveFails(t) /\ UNCHANGED mergerVars /\ UNCHANGED <<call, mail>>

Spec == Init /\ [][Next]_vars

(***************************************************************************)
(* Specification of the outreach: one operation, with every input drawn    *)
(***************************************************************************)
InitOutreach == mail = MailIdle /\ MergerIdle /\ AppIdle /\ ScrapeIdle

NextOutreach ==
    \/ OutreachStart /\ UNCHANGED mergerVars /\ UNCHANGED appVars /\ UNCHANGED call
    \/ OutreachItem /\ UNCHANGED mergerVars /\ UNCHANGED appVars /\ UNCHANGED call
    \/ OutreachEnd /\ UNCHANGED mergerVars /\ UNCHANGED appVars /\ UNCHANGED call
    \/ PreviewRoute /\ UNCHANGED mergerVars /\ UNCHANGED appVars /\ UNCHANGED call
    \/ SendRouteStart /\ UNCHANGED mergerVars /\ UNCHANGED appVars /\ UNCHANGED call
    \/ SendRouteItem /\ UNCHANGED mergerVars /\ UNCHANGED appVars /\ UNCHANGED call
    \/ SendRouteEnd /\ UNCHANGED mergerVars /\ UNCHANGED appVars /\ UNCHANGED call

SpecOutreach == InitOutreach /\ [][NextOutreach]_vars

(***************************************************************************)
(* Specification of the court extractors: calls with every text drawn      *)
(***************************************************************************)
InitExtract == call = NoCall /\ MergerIdle /\ AppIdle /\ mail = MailIdle

NextExtract ==
    \/ CourtsStaticCall /\ UNCHANGED mergerVars /\ UNCHANGED appVars /\ UNCHANGED mail
    \/ CourtsJsCall /\ UNCHANGED mergerVars /\ UNCHANGED appVars /\ UNCHANGED mail
    \/ CourtsLegacyCall /\ UNCHANGED mergerVars /\ UNCHANGED appVars /\ UNCHANGED mail
    \/ SurfaceCall /\ UNCHANGED mergerVars /\ UNCHANGED appVars /\ UNCHANGED mail
    \/ CallReturn /\ UNCHANGED mergerVars /\ UNCHANGED appVars /\ UNCHANGED mail

SpecExtract == InitExtract /\ [][NextExtract]_vars

(***************************************************************************)
(* Specification of the normalizers: calls on every pair drawn             *)
(***************************************************************************)
InitNormalize == call = NoCall /\ MergerIdle /\ AppIdle /\ mail = MailIdle

NextNormalize ==
    \/ NormalizeNames /\ UNCHANGED mergerVars /\ UNCHANGED appVars /\ UNCHANGED mail
    \/ NormalizeUrls /\ UNCHANGED mergerVars /\ UNCHANGED appVars /\ UNCHANGED mail
    \/ CallReturn /\ UNCHANGED mergerVars /\ UNCHANGED appVars /\ UNCHANGED mail

SpecNormalize == InitNormalize /\ [][NextNormalize]_vars

(***************************************************************************)
(* Properties of scrape_club (checked under SpecScrape)                    *)
(***************************************************************************)
Called == call.op \in {"static", "hybrid"}
Has(d, f) == f \in DOMAIN d /\ d[f] # NA
HybridLabels == {"Success (Hybrid)", "Success (Hybrid+Pre-loaded)"}
\* the statuses scrape_club sets when the attempt failed
FailureStatuses == {"Failed", "Timeout after 15s", "HTTP 404", "HTTP 503", "Connection failed",
                    "Too many redirects", "OSError: fetch", "ValueError: Exceeds the limit"}
\* the record as seeded from the Merger, before any fetch
SeededRecord == Seed(NewResult(call.club.url, call.club.name), call.existing)
\* the record the script-rendered pass returned
JsRecord == JsScrapeClub(call.club.url, call.club.name, call.js.outcome, call.js.page)

\* C1: preload precedence.  A non-'N/A' value the Merger's entry holds for
\* Email, Location, Club Type, Membership Status or Number of Courts is the
\* value of the returned record, for the static scraper and for the hybrid
\* scraper (retry included), whatever the fetch returned and the extractors found.
C1_PreloadPrecedence ==
    Called =>
        \A f \in {"Email", "Location", "Club Type", "Membership Status", "Number of Courts"} :
            Has(call.existing, f) => call.result[f] = call.existing[f]

\* C1 witness: the entry holds an Email, the fetched page holds another one and
\* the extractors ran on it; the record returned holds the entry's Email.
C1_Witness ==
    /\ call.op = "static"
    /\ call.fetch.outcome = "ok" /\ call.fetch.page.textLen >= MinTextLen
    /\ call.fetch.page.found["Email"] = "info@page.org"
    /\ Has(call.existing, "Email") /\ call.existing["Email"] = "a@x.com"
    /\ call.result["Email"] = "a@x.com"
    /\ call.result["Waitlist Length"] = "12"

\* C2 (as claimed): a record with a failure status holds, in every extracted
\* field, the value seeded from the Merger ('N/A' where nothing was seeded): no
\* extractor output appears in it.
C2_FailureKeepsSeed ==
    (call.op = "static" /\ call.result["Scrape Status"] \in FailureStatuses) =>
        \A f \in ExtractedFields : call.result[f] = SeededRecord[f]

\* C10 (as claimed): static text below the threshold with the fallback enabled:
\* the script-rendered pass runs, every field 'N/A' after the static pass that
\* the script-rendered pass found holds the found value, and the status is a
\* hybrid success label.
C10_ShortTextCase ==
    /\ call.op = "hybrid" /\ call.use_js
    /\ call.fetch.outcome = "ok" /\ call.fetch.page.textLen < MinTextLen
C10_RetryFills ==
    /\ call.js # JsNotCalled
    /\ \A f \in ExtractedFields :
          (call.static[f] = NA /\ JsRecord[f] # NA) => call.result[f] = JsRecord[f]
C10_Original ==
    C10_ShortTextCase =>
        /\ C10_RetryFills
        /\ call.result["Scrape Status"] \in HybridLabels

\* C10 (amended): as above, but the status is a hybrid success label exactly when
\* the script-rendered pass succeeded; when it failed (timeout, error) the status
\* stays 'JS-heavy (limited data)'.
C10_RetryFillsAndLabels ==
    C10_ShortTextCase =>
        /\ C10_RetryFills
        /\ IsSuccessStatus(JsRecord["Scrape Status"])
              => call.result["Scrape Status"] \in HybridLabels
        /\ ~IsSuccessStatus(JsRecord["Scrape Status"])
              => call.result["Scrape Status"] = "JS-heavy (limited data)"

\* C10 witness: a short page, the retry ran and succeeded, the Email it found
\* filled the 'N/A' slot and the label is the hybrid one.
C10_Witness ==
    /\ C10_ShortTextCase
    /\ call.js.outcome = "ok" /\ ~call.js.page.courtsRaise
    /\ call.static["Email"] = NA /\ call.result["Email"] = "club@rendered.org"
    /\ call.result["Scrape Status"] = "Success (Hybrid)"

(***************************************************************************)
(* Properties of build_lookup_dict (checked under SpecMerger)              *)
(***************************************************************************)
\* This step is the Toronto loop's body for row, amending the entry its name key has
AmendedBy(row) ==
    /\ mphase = "toronto" /\ torCount' = torCount + 1
    /\ row.name # NaN /\ ~RowRaises(row)
    /\ normalize_name(row.name) \in DOMAIN merged_data
    /\ merged_data' = TorontoRowStep(Table, row).md
    /\ sameObj' = TorontoRowStep(Table, row).same

\* C3: the amend rule.  When a Toronto row lands on the entry an earlier row
\* stored under the same name key, every field that was non-'N/A' in the entry
\* or in the row is non-'N/A' in the entry afterwards; a field only the entry
\* had keeps its value and a field only the row has takes the row's value.
C3_AmendKeepsBoth ==
    [][\A row \in TorontoRows :
          AmendedBy(row) =>
            LET k == normalize_name(row.name)
                pre == merged_data[k]
                post == merged_data'[k]
                data == TorontoData(row)
            IN \A f \in (DOMAIN pre \cup DOMAIN data) \ {"source"} :
                  /\ (Has(pre, f) \/ Has(data, f)) => Has(post, f)
                  /\ (Has(pre, f) /\ ~Has(data, f)) => post[f] = pre[f]
                  /\ (Has(data, f) /\ ~Has(pre, f)) => post[f] = data[f]]_vars

\* C3 witness: an entry combined from an OTA row with an Email and no court
\* count and a Toronto row with a court count.
C3_Witness ==
    \E k \in DOMAIN merged_data :
        /\ merged_data[k]["source"] = "OTA+Toronto"
        /\ merged_data[k]["Email"] = "a@x.com"
        /\ Has(merged_data[k], "Number of Courts") /\ merged_data[k]["Number of Courts"] = "4"
        /\ merged_data[k]["Club Type"] = "Private"

\* C4 (as claimed): an amend fills only the fields that are 'N/A' in the existing
\* entry; a field that holds a non-'N/A' value (Club Type, Website, Club Name
\* included) keeps it.
C4_AmendKeepsPopulated ==
    [][\A row \in TorontoRows :
          AmendedBy(row) =>
            LET k == normalize_name(row.name)
                pre == merged_data[k]
                post == merged_data'[k]
            IN \A f \in DOMAIN pre \ {"source"} : pre[f] # NA => post[f] = pre[f]]_vars

(***************************************************************************)
(* Properties of the dashboard's batch worker (checked under Spec)         *)
(***************************************************************************)
\* worker w is in its loop: between two clubs, or inside scrape_club
InLoop(w) == wpc[w] \in {"loop", "scraping"}
\* the cell is missing or holds only whitespace
NoSite(website) == website = NaN \/ website \in {"", " "}
IsPrefix(s, t) == Len(s) <= Len(t) /\ \A i \in 1..Len(s) : s[i] = t[i]

\* C5 (as claimed): a failure while processing one club never aborts the batch.
\* A worker leaves its loop only when no row is left or the flag was cleared, and
\* each row it has processed added exactly one entry to results or to errors.
C5_RowFaultIsLocal ==
    [][\A w \in Workers :
          /\ (InLoop(w) /\ wpc'[w] \notin {"loop", "scraping"})
                => (widx[w] > Len(wdf[w]) \/ ~scraping_status.running)
          /\ (InLoop(w) /\ widx'[w] = widx[w] + 1)
                => Len(scraping_status'.results) + Len(scraping_status'.errors)
                     = Len(scraping_status.results) + Len(scraping_status.errors) + 1]_vars

\* C6 (as claimed): cooperative cancellation.  Once the flag was cleared while
\* worker w was processing a club, w starts no further scrape_club call and the
\* results there were at that moment stay at the head of the result list, in every
\* interleaving with start-scraping requests and the workers they start.
C6_StopIsHonoured ==
    [][\A w \in Workers :
          obs[w].stopped =>
            /\ ~(wpc[w] = "loop" /\ wpc'[w] = "scraping")
            /\ IsPrefix(obs[w].kept, scraping_status'.results)]_vars

\* C7 (as claimed): at every moment at most one background worker is alive and
\* at most one scrape_club call is in flight.
C7_SingleWorker ==
    /\ Cardinality({w \in Workers : wpc[w] \notin {"none", "done"}}) <= 1
    /\ Cardinality({w \in Workers : wpc[w] = "scraping"}) <= 1

\* C8 (as claimed): the result list is written after every processed club.  In a
\* run of a single worker, between two clubs the persisted output holds the
\* records of the clubs processed so far.
C8_PersistedAfterEveryClub ==
    \A w \in Workers :
        (env.posts = 1 /\ wpc[w] = "loop") => persisted = scraping_status.results

\* C9: a roster row whose website is missing or whitespace-only.  The step the
\* worker takes at such a row starts no scrape_club call (no fetch); when it
\* processes the row it appends one record with Website 'N/A': the Merger's
\* values under a Pre-loaded status when the Merger has an entry for the name,
\* and otherwise all eight extracted fields 'N/A' and the status 'No website'.
C9_NoWebsiteNoFetch ==
    [][\A w \in Workers :
          (wpc[w] = "loop" /\ widx[w] <= Len(wdf[w]) /\ NoSite(wdf[w][widx[w]].website))
            => /\ wpc'[w] # "scraping"
               /\ widx'[w] = widx[w] + 1 =>
                    LET row == wdf[w][widx[w]]
                        hit == get_existing_key(merged_data, row.name, "")
                        res == scraping_status'.results
                        rec == res[Len(res)]
                    IN /\ Len(res) = Len(scraping_status.results) + 1
                       /\ rec["Club Name"] = row.name /\ rec["Website"] = NA
                       /\ hit = NoKey =>
                            /\ \A k \in ExtractedFields : rec[k] = NA
                            /\ rec["Scrape Status"] = "No website"
                       /\ hit # NoKey =>
                            /\ IsPreloadedStatus(rec["Scrape Status"])
                            /\ \A k \in {"Email", "Number of Courts"} :
                                  Has(merged_data[hit], k) => rec[k] = merged_data[hit][k]]_vars

\* C9 witness: a worker that was never inside scrape_club has processed a
\* whitespace-only row of a club the Merger does not know and appended the
\* 'No website' record.
C9_Witness ==
    /\ env.posts = 1 /\ env.roster = <<WebRow, BlankRow>>
    /\ \E w \in Workers :
         /\ warg[w].max_clubs = 0 /\ wpc[w] = "loop" /\ widx[w] = 3
         /\ Len(scraping_status.results) = 2
         /\ scraping_status.results[2]["Scrape Status"] = "No website"
         /\ scraping_status.results[2]["Website"] = NA
         /\ \A k \in ExtractedFields : scraping_status.results[2][k] = NA

\* the static fetch of the sites failed (HTTP error; scrape_club returned)
FetchFailed == env.site.fetch.outcome \notin {"ok", ScrapeRaises.outcome}

\* C11: a failed fetch is terminal for the club in the run.  For every row of a
\* worker's roster the worker made at most one static fetch and at most one
\* script-rendered fetch, and no script-rendered fetch when the static fetch
\* failed; a worker leaves a row only forwards.
C11_FailedFetchIsTerminal ==
    \A w \in Workers :
        /\ Len(obs[w].static) = Len(wdf[w]) /\ Len(obs[w].js) = Len(wdf[w])
        /\ \A i \in 1..Len(wdf[w]) :
              /\ obs[w].static[i] <= 1 /\ obs[w].js[i] <= 1
              /\ obs[w].static[i] = (IF i < widx[w] /\ HasWebsite(wdf[w][i].website)
                                        /\ env.site.fetch # ScrapeRaises THEN 1 ELSE 0)
              /\ FetchFailed => obs[w].js[i] = 0

\* C11 witness: a hybrid worker (use_js_fallback asked, Playwright installed) has
\* processed a club whose fetch failed with HTTP 404: one static fetch, no
\* script-rendered fetch, the failure status in the results, and it is at the next row.
C11_Witness ==
    /\ FetchFailed /\ env.site.playwright
    /\ \E w \in Workers :
         /\ warg[w].use_js_fallback /\ wpc[w] = "loop" /\ widx[w] = 2
         /\ obs[w].static[1] = 1 /\ obs[w].js[1] = 0
         /\ Len(scraping_status.results) = 1
         /\ scraping_status.results[1]["Scrape Status"] = "HTTP 404"

(***************************************************************************)
(* Properties of the outreach (checked under SpecOutreach)                 *)
(***************************************************************************)
\* the informational fields of a record: all but its name, address, email and status
InfoFields(club) ==
    DOMAIN club \ {"Club Name", "Email", "Website", "Website URL", "Scrape Status"}
\* a real address and at least one informational field missing
Eligible(club) ==
    /\ GetOrNone(club, "Email") \notin {NA, "", "<None>", Placeholder}
    /\ \E k \in InfoFields(club) : club[k] = NA
\* the send_email calls of a run that were for the club's address
SendsTo(club) == SelectSeq(mail.smtp, LAMBDA c : c.to = club["Email"])

\* C12 (as claimed): outreach eligibility.  Every club a message was generated
\* for, and every club send_email was called for, has a real Email (not 'N/A',
\* not empty, not the contact-form placeholder) and an informational field 'N/A'.
C12_OutreachEligibility ==
    /\ \A i \in 1..Len(mail.generated) : Eligible(mail.generated[i])
    /\ \A i \in 1..Len(mail.smtp) :
          \E j \in 1..Len(mail.clubs) :
              mail.clubs[j]["Email"] = mail.smtp[i].to /\ Eligible(mail.clubs[j])

\* C13: dry run sends nothing.  With dry_run set no send_email call is made,
\* by send_outreach_emails or by the send-emails route, and every log record has
\* sent false and no timestamp; in every log record of any run sent is true
\* exactly when the timestamp is set, and only for a club whose Email is not 'N/A'.
C13_DryRunSendsNothing ==
    /\ mail.dry_run =>
          /\ mail.smtp = <<>>
          /\ \A i \in 1..Len(mail.log) :
                ~mail.log[i].sent /\ mail.log[i].timestamp = "null"
          /\ mail.op = "send" => mail.pc = "done" /\ mail.failed_count = 0
    /\ \A i \in 1..Len(mail.log) :
          /\ mail.log[i].sent <=> mail.log[i].timestamp # "null"
          /\ mail.log[i].sent => mail.log[i].email # NA

\* C13 witness: a finished dry run of send_outreach_emails over two clubs, one of
\* them with an address: two log records, none sent, no send_email call.
C13_Witness ==
    /\ mail.op = "cli" /\ mail.pc = "done" /\ mail.dry_run /\ mail.creds
    /\ Len(mail.log) = 2 /\ mail.log[1].email = "info@club.ca" /\ mail.log[2].email = NA
    /\ ~mail.log[1].sent /\ mail.smtp = <<>>

\* the items of the outreach list send_email is to be called for
Attempted == SelectSeq(mail.todo, LAMBDA it : GetOrNone(it.club, "Email") # NA)

\* C14: a failed transmission is local to its recipient.  In a run of
\* send_outreach_emails that is not a dry run, the k-th club with an address has
\* the k-th send_email call; a call that failed leaves the club's log record
\* unsent and without timestamp, and the clubs after it are still attempted: at
\* the end there is one call per club with an address, and the sent records plus
\* the failed calls are as many as those clubs.  In the send-emails route every
\* club to contact is counted once, as sent or as failed.
C14_SendFailureIsLocal ==
    /\ (mail.op = "cli" /\ ~mail.dry_run) =>
          /\ Len(mail.log) = mail.i - 1
          /\ \A k \in 1..Len(mail.smtp) :
                /\ mail.smtp[k].to = Attempted[k].club["Email"]
                /\ \E n \in 1..Len(mail.log) :
                      /\ mail.log[n].club_name = Attempted[k].club["Club Name"]
                      /\ mail.log[n].sent = mail.smtp[k].success
                      /\ mail.smtp[k].success => mail.smtp[k].transmitted
          /\ mail.pc = "done" =>
                /\ Len(mail.smtp) = Len(Attempted)
                /\ mail.sent_count
                     + Len(SelectSeq(mail.smtp, LAMBDA c : ~c.success)) = Len(Attempted)
    /\ (mail.op = "send" /\ ~mail.dry_run) =>
          /\ mail.sent_count + mail.failed_count = mail.i - 1
          /\ mail.pc = "done" => mail.sent_count + mail.failed_count = Len(mail.todo)

\* C14 witness: a finished run of send_outreach_emails over two clubs with an
\* address: the transmission to the first failed, the second was attempted and
\* went through; the log has the first unsent and the second sent.
C14_Witness ==
    /\ mail.op = "cli" /\ mail.pc = "done" /\ ~mail.dry_run /\ mail.creds
    /\ Len(mail.smtp) = 2 /\ ~mail.smtp[1].success /\ mail.smtp[2].success
    /\ Len(mail.log) = 2 /\ ~mail.log[1].sent /\ mail.log[1].timestamp = "null"
    /\ mail.log[2].sent /\ mail.sent_count = 1

(***************************************************************************)
(* Properties of get_existing_data (checked under SpecMerger)              *)
(***************************************************************************)
\* C15: get_existing_data(name, url) returns the entry under the normalized name
\* key when the table has that key, otherwise the entry under the normalized URL
\* key when the table has that key, otherwise None; what it returns is decided by
\* the table and the arguments alone, and the call leaves the table as it was.
C15_LookupOrder ==
    [][call'.op = "lookup" =>
          LET nk == normalize_name(call'.club_name)
              uk == normalize_url(call'.website)
          IN /\ merged_data' = merged_data /\ sameObj' = sameObj
             /\ nk \in DOMAIN merged_data => call'.result = merged_data[nk]
             /\ (nk \notin DOMAIN merged_data /\ uk \in DOMAIN merged_data)
                   => call'.result = merged_data[uk]
             /\ (nk \notin DOMAIN merged_data /\ uk \notin DOMAIN merged_data)
                   => call'.result = None]_vars

\* C15 witness: the table holds an entry under the name key and another entry
\* under the URL key of the arguments, and the call returned the former.
C15_Witness ==
    /\ call.op = "lookup"
    /\ normalize_name(call.club_name) \in DOMAIN merged_data
    /\ normalize_url(call.website) \in DOMAIN merged_data
    /\ merged_data[normalize_name(call.club_name)] # merged_data[normalize_url(call.website)]
    /\ call.result = merged_data[normalize_name(call.club_name)]

(***************************************************************************)
(* The lookup table under the dashboard (checked under Spec)               *)
(***************************************************************************)
\* C16: after initialize_data_merger has returned, no step of a request, of a
\* worker or of the scrape_club call a worker makes adds or removes a key of the
\* lookup table, rebinds a key or changes a value of an entry.
C16_TableIsReadOnly ==
    [][/\ merged_data' = merged_data
       /\ sameObj' = sameObj]_vars

\* C16 witness: a worker has appended a record seeded from the Merger's entry
\* (a Pre-loaded status with the entry's Email) and the table is the one built.
C16_Witness ==
    /\ merged_data = AmendedTable
    /\ \E i \in 1..Len(scraping_status.results) :
          LET rec == scraping_status.results[i] IN
          /\ IsPreloadedStatus(rec["Scrape Status"])
          /\ rec["Email"] = "a@x.com"
          /\ \E k \in DOMAIN merged_data : merged_data[k]["Email"] = rec["Email"]

(***************************************************************************)
(* The records of the dashboard (checked under Spec)                       *)
(***************************************************************************)
\* what is no value: a missing cell, None, the empty string
Undefined == {NaN, "<None>", ""}
\* the record has the eleven keys and each holds a value or 'N/A'
RecordComplete(rec) ==
    /\ DOMAIN rec = RecordKeys
    /\ \A k \in RecordKeys : rec[k] \notin Undefined

\* C17 (as claimed): every record the batch worker appends to results, whether
\* scrape_club returned it or the no-website branch built it, has the name, the
\* website, the status and the eight extracted fields, each holding a real value
\* or 'N/A'; so has every record written to the results file.
C17_RecordsComplete ==
    /\ \A i \in 1..Len(scraping_status.results) : RecordComplete(scraping_status.results[i])
    /\ \A i \in 1..Len(persisted) : RecordComplete(persisted[i])

\* every club of the run is the same club with a website, and its fetch fails
SameClubFails ==
    /\ FetchFailed
    /\ \A i \in 1..Len(env.roster) :
          /\ env.roster[i] = env.roster[1]
          /\ ~WebsiteRaises(env.roster[i].website)
          /\ HasWebsite(env.roster[i].website)

\* C18: scrape_club run twice for the same club on a fetch failure, with the same
\* name, URL, lookup table and fetch outcome, returns records equal in every field
\* and in the status: all records of such a run, in results and in the results
\* file, are the same record.
C18_FailedRunsAgree ==
    SameClubFails =>
        /\ \A i, j \in 1..Len(scraping_status.results) :
              scraping_status.results[i] = scraping_status.results[j]
        /\ \A i, j \in 1..Len(persisted) : persisted[i] = persisted[j]

\* C18 witness: the club the Merger knows was scraped twice in one run, both
\* fetches failed with HTTP 404, and both records carry the Merger's Email and
\* the failure status.
C18_Witness ==
    /\ SameClubFails
    /\ Len(scraping_status.results) = 2
    /\ \A i \in 1..2 :
          /\ scraping_status.results[i]["Email"] = "a@x.com"
          /\ scraping_status.results[i]["Scrape Status"] = "HTTP 404"

(***************************************************************************)
(* Properties of the court extractors (checked under SpecExtract)          *)
(***************************************************************************)
CourtsCalled == call.op \in {"extract_courts_count", "_extract_courts", "extract_court_info"}
\* the decimal forms of the integers of [1,50]
CourtCounts == {StrOf(n) : n \in MinCourts..MaxCourts}

\* C19 (as claimed): the court count an extractor returns is 'N/A' or the decimal
\* form of an integer of [1,50]; a page whose only number before 'courts' is 500
\* yields 'N/A' and one with 6 yields '6'.  For extract_courts_count, _extract_courts
\* and extract_court_info.
C19_CourtCountInRange ==
    CourtsCalled =>
        /\ call.result = NAChars \/ call.result \in CourtCounts
        /\ call.text = JoinWords(<<"500", "courts">>) => call.result = NAChars
        /\ call.text = JoinWords(<<"6", "courts">>) => call.result = StrOf(6)

\* the same for the two extractors of the dashboard: extract_courts_count and
\* _extract_courts
C19_DashboardCountInRange ==
    call.op \in {"extract_courts_count", "_extract_courts"} =>
        /\ call.result = NAChars \/ call.result \in CourtCounts
        /\ call.text = JoinWords(<<"500", "courts">>) => call.result = NAChars
        /\ call.text = JoinWords(<<"6", "courts">>) => call.result = StrOf(6)

SurfaceCalled == call.op = "extract_court_surface"
IndoorName == SurfaceChars("Indoor")
OutdoorName == SurfaceChars("Outdoor")

\* C20: the court-surface value never contains both 'Indoor' and 'Outdoor'.  When
\* an indoor phrase and an outdoor phrase are both found in the text the value
\* contains 'Indoor' and not 'Outdoor'; 'Outdoor' is in the value only when no
\* indoor phrase was found.
C20_IndoorExcludesOutdoor ==
    SurfaceCalled =>
        LET s == Lower(call.text) IN
        /\ ~(Contains(IndoorName, call.result) /\ Contains(OutdoorName, call.result))
        /\ (IndoorPhrase(s) /\ OutdoorPhrase(s))
              => (Contains(IndoorName, call.result) /\ ~Contains(OutdoorName, call.result))
        /\ Contains(OutdoorName, call.result) => ~IndoorPhrase(s)

\* C20 witness: the text 'indoor courts Outdoor courts' was given and the value
\* returned is 'Indoor'.
C20_Witness ==
    /\ SurfaceCalled
    /\ call.text = JoinWords(<<"indoor", "courts", "Outdoor", "courts">>)
    /\ call.result = IndoorName

(***************************************************************************)
(* Properties of the normalizers (checked under SpecNormalize)             *)
(***************************************************************************)
\* C21: two names that differ only in letter case, in runs of whitespace and in
\* a 'tennis club' versus 'tc' suffix have the same name key, and two URLs that
\* differ only in letter case, in the scheme, in a leading 'www.' and in a
\* trailing slash have the same URL key.
C21_VariantsShareKey ==
    (call.op \in {"normalize_name", "normalize_url"} /\ call.a.id = call.b.id)
        => call.key_a = call.key_b

\* C21 witness: 'ABC  Tennis   Club' and 'abc tc' were normalized to the key 'abc'.
C21_Witness ==
    /\ call.op = "normalize_name"
    /\ call.a.chars = Chars("ABC  Tennis   Club") /\ call.b.chars = Chars("abc tc")
    /\ call.key_a = <<"a","b","c">> /\ call.key_b = <<"a","b","c">>

(***************************************************************************)
(* The retry decision and the labels (checked under SpecScrape)            *)
(***************************************************************************)
\* the seven data fields of _has_minimal_data
DataFields == {"Email", "Location", "Club Type", "Membership Status",
               "Waitlist Length", "Number of Courts", "Court Surface"}
\* the static pass signalled JS-heavy content: too little visible text, or
\* framework script tags
JsHeavySignalled ==
    /\ call.fetch.outcome = "ok"
    /\ (call.fetch.page.textLen < MinTextLen \/ call.fetch.page.jsHeavy)
\* the static pass succeeded with fewer than 3 data fields and is not a pre-load
FewFieldsFound ==
    /\ IsSuccessStatus(call.static["Scrape Status"])
    /\ ~IsPreloadedStatus(call.static["Scrape Status"])
    /\ Cardinality({f \in DataFields : call.static[f] # NA}) < MinimalFields

\* C22 (as claimed): with the fallback enabled the script-rendered fetch runs if
\* and only if the static pass signalled JS-heavy content (visible text below the
\* threshold or framework script tags), or succeeded with fewer than 3 of the 7
\* data fields populated on a record that is not a pre-load.
C22_RetryDecision ==
    (call.op = "hybrid" /\ call.use_js) =>
        ((call.js # JsNotCalled) <=> (JsHeavySignalled \/ FewFieldsFound))

\* C23 (as claimed): a record the static scrape_club returns with a 'Pre-loaded
\* (source)' status holds no populated extracted field but those of the Merger's
\* entry (the fetch and the extractors added none), and the entry had a populated
\* field other than Email.
C23_PreloadedIsReferenceOnly ==
    (call.op = "static" /\ IsPreloadedStatus(call.result["Scrape Status"])) =>
        /\ \A f \in ExtractedFields :
              call.result[f] # NA => (Has(call.existing, f) /\ call.existing[f] = call.result[f])
        /\ \E f \in PreloadKeys \ {"Email"} : Has(call.existing, f)

(***************************************************************************)
(* The source tag and the two keys of an entry (checked under SpecMerger)  *)
(***************************************************************************)
\* C24 (as claimed): the tag of an entry is 'OTA+Toronto' only if an OTA row and a
\* Toronto row contributed to it: an entry takes the tag only in a step on an
\* entry that an OTA row built (tag 'OTA' or 'OTA+Toronto' before the step), so
\* an entry built from Toronto rows only keeps the tag 'Toronto'.
C24_TagIsCombination ==
    [][\A k \in DOMAIN merged_data' :
          merged_data'[k]["source"] = "OTA+Toronto"
            => /\ k \in DOMAIN merged_data
               /\ merged_data[k]["source"] \in {"OTA", "OTA+Toronto"}]_vars

(***************************************************************************)
(* Specification of the membership-status extractors                       *)
(***************************************************************************)
InitMembership == call = NoCall /\ MergerIdle /\ AppIdle /\ mail = MailIdle

NextMembership ==
    \/ MembershipStaticCall /\ UNCHANGED mergerVars /\ UNCHANGED appVars /\ UNCHANGED mail
    \/ MembershipJsCall /\ UNCHANGED mergerVars /\ UNCHANGED appVars /\ UNCHANGED mail
    \/ MembershipLegacyCall /\ UNCHANGED mergerVars /\ UNCHANGED appVars /\ UNCHANGED mail
    \/ CallReturn /\ UNCHANGED mergerVars /\ UNCHANGED appVars /\ UNCHANGED mail

SpecMembership == InitMembership /\ [][NextMembership]_vars

(***************************************************************************)
(* Membership status (checked under SpecMembership)                        *)
(***************************************************************************)
MembershipCalled ==
    call.op \in {"extract_membership_status", "_extract_membership",
                 "legacy extract_membership_status"}

\* C25 (as claimed): a text with a waitlist phrase and an accepting-members
\* phrase gives 'Waitlist' in each of the three extractors, and 'Open' is
\* returned only for a text with no waitlist phrase.
C25_WaitlistBeforeOpen ==
    MembershipCalled =>
        /\ (WaitlistPhrase(Lower(call.text)) /\ OpenPhrase(Lower(call.text)))
              => call.result = "Waitlist"
        /\ call.result = "Open" => ~WaitlistPhrase(Lower(call.text))

\* C25 (supporting): the first scraper (scraper.py) tests the waitlist words
\* first and never returns 'Open' for a text that holds one of them.
C25_LegacyWaitlistFirst ==
    call.op = "legacy extract_membership_status"
        => (call.result = "Open" => ~WaitlistPhrase(Lower(call.text)))

(***************************************************************************)
(* The two keys of a row (checked under SpecMerger)                        *)
(***************************************************************************)
\* This step is the body of the OTA loop for row
OtaStepOf(row) ==
    /\ mphase = "ota" /\ otaCount' = otaCount + 1
    /\ row.name # NaN
    /\ merged_data' = OtaRowStep(Table, row).md
    /\ sameObj' = OtaRowStep(Table, row).same
\* This step is the body of the Toronto loop for row
TorontoStepOf(row) ==
    /\ mphase = "toronto" /\ torCount' = torCount + 1
    /\ row.name # NaN /\ ~RowRaises(row)
    /\ merged_data' = TorontoRowStep(Table, row).md
    /\ sameObj' = TorontoRowStep(Table, row).same
BothKeys(row) == normalize_name(row.name) # <<>> /\ normalize_url(row.website_url) # <<>>
\* the entries under the two keys of row hold the same field values
KeysAgree(md, row) ==
    /\ normalize_name(row.name) \in DOMAIN md
    /\ normalize_url(row.website_url) \in DOMAIN md
    /\ md[normalize_url(row.website_url)] = md[normalize_name(row.name)]

\* C26 (as claimed): once a row with a name key and a URL key is processed, the
\* entry under its URL key holds the same field values as the entry under its
\* name key: a Toronto row amended into an entry under the name key is seen in
\* merged form under its URL key, and a Toronto row whose URL key holds an
\* entry amends that entry.
C26_KeysReachSameEntry ==
    [][/\ \A row \in OtaRows : (OtaStepOf(row) /\ BothKeys(row)) => KeysAgree(merged_data', row)
       /\ \A row \in TorontoRows :
             (TorontoStepOf(row) /\ BothKeys(row)) => KeysAgree(merged_data', row)]_vars

\* C26 (supporting): the OTA loop binds one dict under both keys of a row.
C26_OtaKeysAgree ==
    [][\A row \in OtaRows : (OtaStepOf(row) /\ BothKeys(row)) => KeysAgree(merged_data', row)]_vars

(***************************************************************************)
(* The counters a progress query reads (checked under Spec)                *)
(***************************************************************************)
\* one worker was started, and no other
OneWorker == Cardinality({w \in Workers : wpc[w] # "none"}) <= 1
\* worker w has set total and has not finished
Counting(w) == wpc[w] \in {"loop", "scraping", "save"}
\* errors_count + results_count of get_scraping_status
Counted(st) == Len(st.results) + Len(st.errors)
CountsWithinProgress(st) == Counted(st) <= st.progress /\ st.progress <= st.total
\* worker w finishes in this step
Finishes(w) == Counting(w) /\ wpc'[w] = "done"

\* C27 (as claimed): in a run with one worker, results_count + errors_count <=
\* progress <= total from the moment the worker has set total, progress never
\* decreases, and when the worker finishes (there is no cancellation with one
\* worker) results_count + errors_count = progress = total.
C27_ProgressCounts ==
    [][OneWorker' =>
        \A w \in Workers :
          /\ Counting(w)' => CountsWithinProgress(scraping_status')
          /\ Counting(w) => scraping_status'.progress >= scraping_status.progress
          /\ Finishes(w) => /\ Counted(scraping_status') = scraping_status'.progress
                            /\ scraping_status'.progress = scraping_status'.total]_vars

\* C27 (supporting): what holds in the code.  While the one worker is in its
\* loop or saving, the counts are within progress and progress within total,
\* progress never decreases, and a worker that finishes by saving its results
\* leaves results_count + errors_count = progress = total.
C27_CountsWhileRunning ==
    [][OneWorker' =>
        \A w \in Workers :
          /\ Counting(w)' => CountsWithinProgress(scraping_status')
          /\ Counting(w) => scraping_status'.progress >= scraping_status.progress
          /\ (Finishes(w) /\ wpc[w] = "save" /\ scraping_status' = [scraping_status EXCEPT !.running = FALSE])
                => /\ Counted(scraping_status') = scraping_status'.progress
                   /\ scraping_status'.progress = scraping_status'.total]_vars

(***************************************************************************)
(* Termination of a run (checked under SpecLive)                           *)
(***************************************************************************)
\* The steps of the thread of worker w that do not read the Merger's table
PlainStep(w) ==
    \/ WorkerStart(w) /\ UNCHANGED mergerVars /\ UNCHANGED <<call, mail>>
    \/ WorkerStartFails(w) /\ UNCHANGED mergerVars /\ UNCHANGED <<call, mail>>
    \/ WorkerLoopEnd(w) /\ UNCHANGED mergerVars /\ UNCHANGED <<call, mail>>
    \/ WorkerBreak(w) /\ UNCHANGED mergerVars /\ UNCHANGED <<call, mail>>
    \/ WorkerFetch(w) /\ UNCHANGED mergerVars /\ UNCHANGED <<call, mail>>
    \/ WorkerScrapeRaises(w) /\ UNCHANGED mergerVars /\ UNCHANGED <<call, mail>>
    \/ WorkerBadCell(w) /\ UNCHANGED mergerVars /\ UNCHANGED <<call, mail>>
    \/ WorkerSave(w) /\ UNCHANGED mergerVars /\ UNCHANGED <<call, mail>>
    \/ WorkerSaveFails(w) /\ UNCHANGED mergerVars /\ UNCHANGED <<call, mail>>
\* The steps that do: scrape_club returns, a row without website is handled
TableStep(w) ==
    \/ WorkerScraped(w) /\ UNCHANGED <<mphase, otaCount, torCount, sameObj, call, mail>>
    \/ WorkerNoWebsite(w) /\ UNCHANGED <<mphase, otaCount, torCount, sameObj, call, mail>>
\* the guards of WorkerScraped and WorkerNoWebsite
TableStepEnabled(w) ==
    \/ wpc[w] = "scraping" /\ env.site.fetch # ScrapeRaises
    \/ /\ wpc[w] = "loop" /\ widx[w] <= Len(wdf[w]) /\ scraping_status.running
       /\ ~WebsiteRaises(wdf[w][widx[w]].website)
       /\ ~HasWebsite(wdf[w][widx[w]].website)

\* The runs of at most two requests
InitLive == Init /\ env.posts <= 2

\* A started thread is scheduled again and again and every call it makes returns
\* (pd.read_excel, scrape_club, the file writes); requests arrive or not.  Weak
\* fairness of the thread's steps; for the steps of TableStep it is written
\* out, with their guards for ENABLED <<TableStep(w)>>_vars.
ThreadFair(w) ==
    /\ WF_vars(PlainStep(w))
    /\ ([]<>~TableStepEnabled(w) \/ []<><<TableStep(w)>>_vars)

SpecLive == InitLive /\ [][Next]_vars /\ \A w \in Workers : ThreadFair(w)

\* C28: every started run ends with the flag cleared.  A worker thread that was
\* started reaches its end, on each of its paths (the roster cannot be read, the
\* loop ends or is left at a cleared flag, a row or the saving raises), and
\* running is false at that moment.
C28_RunEnds ==
    \A w \in Workers :
        (wpc[w] = "start") ~> (wpc[w] = "done" /\ ~scraping_status.running)

\* C28 witness: the first run ended at a failure while saving its results, the
\* flag is cleared and the second request has passed the running check.
C28_Witness ==
    /\ wpc[1] = "done" /\ rpc[2] = "checked"
    /\ ~scraping_status.running
    /\ scraping_status.results # <<>>
    /\ scraping_status.errors = <<"Fatal error">>

(***************************************************************************)
(* The hybrid labels (checked under SpecScrape)                            *)
(***************************************************************************)
\* the fields of the returned record whose value the Merger's entry gave
MergerFields == {f \in ExtractedFields : Has(call.existing, f) /\ call.result[f] = call.existing[f]}

\* C29 (as claimed): the label 'Success (Hybrid+Pre-loaded)' is given only to a
\* record the Merger contributed a field to; a record labelled by the hybrid
\* retry with no Merger entry for the club is labelled 'Success (Hybrid)'.
C29_HybridPreloadedLabel ==
    call.op = "hybrid" =>
        /\ call.result["Scrape Status"] = "Success (Hybrid+Pre-loaded)" => MergerFields # {}
        /\ (call.result["Scrape Status"] \in HybridLabels /\ call.existing = None)
              => call.result["Scrape Status"] = "Success (Hybrid)"

\* C29 (supporting): what holds in the code.  The label is
\* 'Success (Hybrid+Pre-loaded)' exactly when the record of the static pass
\* held a field before the retry, whether the Merger or the page gave it.
C29_LabelFollowsStaticRecord ==
    (call.op = "hybrid" /\ call.result["Scrape Status"] \in HybridLabels) =>
        (call.result["Scrape Status"] = "Success (Hybrid+Pre-loaded)"
            <=> \E f \in ExtractedFields : call.static[f] # NA)

(***************************************************************************)
(* Specification of the email extractor                                    *)
(***************************************************************************)
InitEmail == call = NoCall /\ MergerIdle /\ AppIdle /\ mail = MailIdle

NextEmail ==
    \/ EmailCall /\ UNCHANGED mergerVars /\ UNCHANGED appVars /\ UNCHANGED mail
    \/ CallReturn /\ UNCHANGED mergerVars /\ UNCHANGED appVars /\ UNCHANGED mail

SpecEmail == InitEmail /\ [][NextEmail]_vars

(***************************************************************************)
(* The blacklist (checked under SpecEmail)                                 *)
(***************************************************************************)
\* C30 (as claimed): what extract_email takes from the page text (the pattern
\* search, the de-obfuscation) or returns after it (the contact-link
\* placeholder) never matches the blacklist; in particular not when every
\* address of the page text is blacklisted.
C30_NoBlacklistedAddress ==
    (call.op = "extract_email" /\ call.via \in {5, 6, 7})
        => ~ContainsAny(call.result, Blacklist)

\* C30 (supporting): the pattern search of the page text (strategy 5) returns
\* no blacklisted address.
C30_PatternSearchFiltered ==
    (call.op = "extract_email" /\ call.via = 5) => ~ContainsAny(call.result, Blacklist)

====
